---- MODULE Spec2Model ----
(***************************************************************************)
(* Hackathon Scout: the streaming event pipeline.                          *)
(*                                                                         *)
(*   model-calling runtime --chunks--> Stream Transformer (transform)      *)
(*     --encodeEvent--> newline-delimited JSON records --> Client Reducer  *)
(*     (handleChunk) --> (status, activity, response)                      *)
(*                                                                         *)
(* JavaScript values are tagged records, objects are ordered lists of      *)
(* key/value pairs, and text is text: JSON.stringify, JSON.parse and the   *)
(* regular expressions of the summarizer work on the characters.           *)
(* The module's strings hold the printable ASCII characters but U+0060,    *)
(* and tab, line feed, form feed and carriage return.  U+2022 (the bullet  *)
(* of the summarizer's join) is written "*", and a character JSON.parse    *)
(* decodes from an escape to none of those is written Unwritable.          *)
(***************************************************************************)
EXTENDS Integers, Sequences, FiniteSets, TLC

\* stands for every character a string of the module cannot hold
Unwritable == "?"

(***************************************************************************)
(* Text                                                                    *)
(***************************************************************************)
Char(s, i) == IF i >= 1 /\ i <= Len(s) THEN SubSeq(s, i, i) ELSE ""

\* s.startsWith(pat, i - 1)
StartsAt(s, i, pat) ==
  /\ i >= 1
  /\ i + Len(pat) - 1 <= Len(s)
  /\ SubSeq(s, i, i + Len(pat) - 1) = pat

\* the characters \s and trim() take for white space, among those a string of
\* the module can hold
IsSpace(c) == c \in {" ", "\n", "\t", "\r", "\f"}

RECURSIVE SkipSpace(_, _)
SkipSpace(s, i) ==
  IF i <= Len(s) /\ IsSpace(Char(s, i)) THEN SkipSpace(s, i + 1) ELSE i

RECURSIVE SkipSpaceBack(_, _)
SkipSpaceBack(s, j) ==
  IF j >= 1 /\ IsSpace(Char(s, j)) THEN SkipSpaceBack(s, j - 1) ELSE j

\* s.trim()
Trim(s) ==
  LET i == SkipSpace(s, 1)
      j == SkipSpaceBack(s, Len(s))
  IN IF i > j THEN "" ELSE SubSeq(s, i, j)

Min(S) == CHOOSE x \in S : \A y \in S : x <= y

RECURSIVE ConcatRange(_, _, _)
\* parts[lo] \o ... \o parts[hi], by halves
ConcatRange(parts, lo, hi) ==
  IF lo > hi THEN ""
  ELSE IF lo = hi THEN parts[lo]
  ELSE LET mid == (lo + hi) \div 2
       IN ConcatRange(parts, lo, mid) \o ConcatRange(parts, mid + 1, hi)

\* parts.join('')
Concat(parts) == ConcatRange(parts, 1, Len(parts))

\* s.replace(/\s+/g, ' '): the first character of a run of white space becomes
\* a space and the rest of the run goes
CollapseSpace(s) ==
  Concat([i \in 1..Len(s) |->
            IF ~IsSpace(Char(s, i)) THEN Char(s, i)
            ELSE IF IsSpace(Char(s, i - 1)) THEN "" ELSE " "])

RECURSIVE JoinFrom(_, _, _)
JoinFrom(parts, i, sep) ==
  IF i > Len(parts) THEN ""
  ELSE IF i = Len(parts) THEN parts[i]
  ELSE parts[i] \o sep \o JoinFrom(parts, i + 1, sep)

\* parts.join(sep)
Join(parts, sep) == JoinFrom(parts, 1, sep)

RECURSIVE SplitFrom(_, _, _)
\* the pieces of s from position start on; at is the set of positions of sep
SplitFrom(s, start, at) ==
  LET later == {i \in at : i >= start}
  IN IF later = {} THEN <<SubSeq(s, start, Len(s))>>
     ELSE <<SubSeq(s, start, Min(later) - 1)>>
          \o SplitFrom(s, Min(later) + 1, at)

\* s.split(sep) for a separator of one character
Split(s, sep) == SplitFrom(s, 1, {i \in 1..Len(s) : Char(s, i) = sep})

Digits == {"0", "1", "2", "3", "4", "5", "6", "7", "8", "9"}

DigitVal(c) ==
  CASE c = "0" -> 0 [] c = "1" -> 1 [] c = "2" -> 2 [] c = "3" -> 3
    [] c = "4" -> 4 [] c = "5" -> 5 [] c = "6" -> 6 [] c = "7" -> 7
    [] c = "8" -> 8 [] OTHER -> 9

RECURSIVE ScanDigits(_, _, _)
\* the number written by the digits from position i on, and the position after
ScanDigits(s, i, acc) ==
  IF Char(s, i) \in Digits
  THEN ScanDigits(s, i + 1, 10 * acc + DigitVal(Char(s, i)))
  ELSE [n |-> acc, i |-> i]

(***************************************************************************)
(* JavaScript values                                                       *)
(*                                                                         *)
(* A finite number is n * 10^e in canonical form (see Dec), an infinite    *)
(* one carries its name in s; an object holds its properties in the order  *)
(* JavaScript enumerates them (see Normal); an array holds its elements    *)
(* under the keys "0", "1", ...                                            *)
(***************************************************************************)
Undef == [s |-> "", n |-> 0, t |-> "undefined", e |-> 0, o |-> <<>>]

Null == [s |-> "", n |-> 0, t |-> "null", e |-> 0, o |-> <<>>]

Str(x) == [s |-> x, n |-> 0, t |-> "string", e |-> 0, o |-> <<>>]

\* an integer of at most nine digits
Num(x) == [s |-> "", n |-> x, t |-> "number", e |-> 0, o |-> <<>>]

Bool(b) ==
  [s |-> "", n |-> IF b THEN 1 ELSE 0, t |-> "boolean", e |-> 0, o |-> <<>>]

P(key, val) == [k |-> key, v |-> val]

\* what an operation that throws gives instead of a value: the TypeError of a
\* conversion that finds nothing it can call
TypeError == [s |-> "TypeError", n |-> 0, t |-> "throw", e |-> 0, o |-> <<>>]

IsThrow(v) == v.t = "throw"

Abs(x) == IF x < 0 THEN 0 - x ELSE x

RECURSIVE Pow10(_)
Pow10(k) == IF k <= 0 THEN 1 ELSE 10 * Pow10(k - 1)

RECURSIVE Canon(_, _)
\* m * 10^x in canonical form: an integer of at most nine digits has exponent
\* 0, any other number has a mantissa that does not end in 0
Canon(m, x) ==
  IF m = 0 THEN [n |-> 0, e |-> 0]
  ELSE IF m % 10 = 0 THEN Canon(m \div 10, x + 1)
  ELSE IF x > 0 /\ Len(ToString(Abs(m))) + x <= 9
  THEN [n |-> m * Pow10(x), e |-> 0]
  ELSE [n |-> m, e |-> x]

\* the number m * 10^x
Dec(m, x) ==
  [s |-> "", n |-> Canon(m, x).n, t |-> "number", e |-> Canon(m, x).e,
   o |-> <<>>]

\* Infinity and -Infinity
Infinite(neg) ==
  [s |-> IF neg THEN "-Infinity" ELSE "Infinity", n |-> 0, t |-> "number",
   e |-> 0, o |-> <<>>]

\* Number.isFinite(v) for a number v
IsFinite(v) == v.s = ""

\* of two numbers written in canonical digits, a is the lesser: it has fewer
\* digits, or as many and the lesser digit where the two first differ
IndexBefore(a, b) ==
  \/ Len(a) < Len(b)
  \/ /\ Len(a) = Len(b)
     /\ \E i \in 1..Len(a) :
          /\ SubSeq(a, 1, i - 1) = SubSeq(b, 1, i - 1)
          /\ DigitVal(Char(a, i)) < DigitVal(Char(b, i))

\* the greatest array index, 2^32 - 2
MaxIndexKey == "4294967294"

\* an array index: "0", or digits that do not start with 0 and write a number
\* up to 2^32 - 2
IsIndexKey(key) ==
  /\ Len(key) \in 1..Len(MaxIndexKey)
  /\ \A i \in 1..Len(key) : Char(key, i) \in Digits
  /\ key = "0" \/ Char(key, 1) # "0"
  /\ ~IndexBefore(MaxIndexKey, key)

\* the least of a set of array indexes
LeastIndex(S) == CHOOSE a \in S : \A b \in S \ {a} : IndexBefore(a, b)

RECURSIVE Ascending(_)
Ascending(S) ==
  IF S = {} THEN <<>> ELSE <<LeastIndex(S)>> \o Ascending(S \ {LeastIndex(S)})

\* the properties in the order of OrdinaryOwnPropertyKeys: index keys ascending,
\* then the other keys in the order they were first set; a key set again keeps
\* its place and takes the later value
Normal(pairs) ==
  IF Len(pairs) <= 1 THEN pairs
  ELSE LET last(key) ==
             pairs[CHOOSE i \in DOMAIN pairs :
                     /\ pairs[i].k = key
                     /\ \A j \in DOMAIN pairs : pairs[j].k = key => j <= i].v
           firsts == SelectSeq([i \in DOMAIN pairs |-> i],
                               LAMBDA i : \A j \in 1..(i - 1) :
                                            pairs[j].k # pairs[i].k)
           keys == [q \in DOMAIN firsts |-> pairs[firsts[q]].k]
           indexes == Ascending({keys[q] : q \in {r \in DOMAIN keys :
                                                     IsIndexKey(keys[r])}})
           others == SelectSeq(keys, LAMBDA key : ~IsIndexKey(key))
       IN [q \in DOMAIN indexes |-> P(indexes[q], last(indexes[q]))]
          \o [q \in DOMAIN others |-> P(others[q], last(others[q]))]

\* the object with the properties set in the order of pairs
Obj(pairs) ==
  [s |-> "", n |-> 0, t |-> "object", e |-> 0, o |-> Normal(pairs)]

\* the array of the items
Arr(items) ==
  [s |-> "", n |-> 0, t |-> "array", e |-> 0,
   o |-> [i \in DOMAIN items |-> P(ToString(i - 1), items[i])]]

\* typeof v
TypeOf(v) == IF v.t \in {"null", "array"} THEN "object" ELSE v.t

Keys(obj) == {obj.o[i].k : i \in DOMAIN obj.o}

\* obj[key]: the value of the property, undefined without one
Get(obj, key) ==
  LET idx == {i \in DOMAIN obj.o : obj.o[i].k = key}
  IN IF obj.t = "array" /\ key = "length" THEN Num(Len(obj.o))
     ELSE IF idx = {} THEN Undef
     ELSE obj.o[CHOOSE i \in idx : \A j \in idx : j <= i].v

Zeros == "000000000000000000000"

\* Number::toString(x) for the number n * 10^e
NumberText(n, e) ==
  LET sign == IF n < 0 THEN "-" ELSE ""
      D == ToString(Abs(n))
      k == Len(D)
      p == k + e
      expo == Char(D, 1) \o (IF k > 1 THEN "." \o SubSeq(D, 2, k) ELSE "")
  IN IF e = 0 THEN ToString(n)
     ELSE IF e > 0
     THEN (IF p <= 21 THEN sign \o D \o SubSeq(Zeros, 1, e)
           ELSE sign \o expo \o "e+" \o ToString(p - 1))
     ELSE IF p > 0 THEN sign \o SubSeq(D, 1, p) \o "." \o SubSeq(D, p + 1, k)
     ELSE IF p > 0 - 6 THEN sign \o "0." \o SubSeq(Zeros, 1, 0 - p) \o D
     ELSE sign \o expo \o "e-" \o ToString(1 - p)

RECURSIVE JSString(_)
\* what join writes for an element: nothing for null and undefined
ElementString(v) ==
  IF v.t \in {"null", "undefined"} THEN Str("") ELSE JSString(v)

\* String(v), and the string that prev + v and a template literal add for v:
\* the string, or the TypeError thrown.  An object is converted by its toString
\* and, when that cannot be called, by its valueOf.  A property toString of the
\* object's own hides Object.prototype.toString, and no value of the module is
\* a function: such an object has no toString to call, its valueOf (its own
\* cannot be called, Object.prototype.valueOf gives the object back) gives no
\* primitive, and the conversion throws.  An array is converted by join, which
\* converts every element.
JSString(v) ==
  CASE v.t = "string" -> v
    [] v.t = "number" ->
         Str(IF IsFinite(v) THEN NumberText(v.n, v.e) ELSE v.s)
    [] v.t = "boolean" -> Str(IF v.n = 1 THEN "true" ELSE "false")
    [] v.t = "null" -> Str("null")
    [] v.t = "undefined" -> Str("undefined")
    [] v.t = "array" ->
         IF \E i \in DOMAIN v.o : IsThrow(ElementString(v.o[i].v))
         THEN TypeError
         ELSE Str(Join([i \in DOMAIN v.o |-> ElementString(v.o[i].v).s], ","))
    [] OTHER ->
         IF "toString" \in Keys(v) THEN TypeError ELSE Str("[object Object]")

(***************************************************************************)
(* JSON.stringify                                                          *)
(***************************************************************************)
\* QuoteJSONString on one character.  (U+0008 and the other control
\* characters, which it also escapes, are not characters of the module.)
EscapeChar(c) ==
  CASE c = "\"" -> "\\\""
    [] c = "\\" -> "\\\\"
    [] c = "\n" -> "\\n"
    [] c = "\t" -> "\\t"
    [] c = "\r" -> "\\r"
    [] c = "\f" -> "\\f"
    [] OTHER -> c

\* a string as JSON text
Quote(s) ==
  "\"" \o Concat([i \in 1..Len(s) |-> EscapeChar(Char(s, i))]) \o "\""

RECURSIVE StringifyText(_)
RECURSIVE StringifyMembers(_, _, _)
\* the members of an object from pair i on; a member whose value is undefined is
\* left out
StringifyMembers(pairs, i, first) ==
  IF i > Len(pairs) THEN ""
  ELSE IF pairs[i].v.t = "undefined" THEN StringifyMembers(pairs, i + 1, first)
  ELSE (IF first THEN "" ELSE ",")
       \o Quote(pairs[i].k) \o ":" \o StringifyText(pairs[i].v)
       \o StringifyMembers(pairs, i + 1, FALSE)

\* the JSON text of a value that is not undefined; an undefined element of an
\* array and a number that is not finite are written null
StringifyText(v) ==
  CASE v.t = "string" -> Quote(v.s)
    [] v.t = "number" -> (IF IsFinite(v) THEN NumberText(v.n, v.e) ELSE "null")
    [] v.t = "boolean" -> (IF v.n = 1 THEN "true" ELSE "false")
    [] v.t \in {"null", "undefined"} -> "null"
    [] v.t = "array" ->
         "[" \o Join([i \in DOMAIN v.o |-> StringifyText(v.o[i].v)], ",") \o "]"
    [] OTHER -> "{" \o StringifyMembers(v.o, 1, TRUE) \o "}"

\* JSON.stringify(v): a string, or undefined for undefined
JSONstringify(v) == IF v.t = "undefined" THEN Undef ELSE Str(StringifyText(v))

(***************************************************************************)
(* JSON.parse.  A result is [ok, v, i]: whether the text parsed, the       *)
(* value, the next position.  A number is the double nearest to what the   *)
(* text writes (see Double); the numbers read are those of at most nine    *)
(* digits, leading and trailing zeros apart, that a double of other digits *)
(* does not stand for.                                                     *)
(***************************************************************************)
ParseFail == [ok |-> FALSE, v |-> Undef, i |-> 0]

ParseOk(val, next) == [ok |-> TRUE, v |-> val, i |-> next]

\* JSON's white space: space, tab, line feed, carriage return
IsJSONSpace(c) == c \in {" ", "\n", "\t", "\r"}

RECURSIVE SkipJSONSpace(_, _)
SkipJSONSpace(s, i) ==
  IF i <= Len(s) /\ IsJSONSpace(Char(s, i)) THEN SkipJSONSpace(s, i + 1) ELSE i

\* the character a one-letter escape stands for, "" for a letter that is none
Unescape(c) ==
  CASE c = "\"" -> "\""
    [] c = "\\" -> "\\"
    [] c = "/" -> "/"
    [] c = "n" -> "\n"
    [] c = "t" -> "\t"
    [] c = "r" -> "\r"
    [] c = "f" -> "\f"
    [] c = "b" -> Unwritable
    [] OTHER -> ""

HexDigits ==
  Digits \cup {"a", "b", "c", "d", "e", "f", "A", "B", "C", "D", "E", "F"}

HexVal(c) ==
  CASE c \in Digits -> DigitVal(c)
    [] c \in {"a", "A"} -> 10 [] c \in {"b", "B"} -> 11
    [] c \in {"c", "C"} -> 12 [] c \in {"d", "D"} -> 13
    [] c \in {"e", "E"} -> 14 [] OTHER -> 15

\* U+0020 to U+005F
AsciiLow == " !\"#$%&'()*+,-./0123456789:;<=>?@ABCDEFGHIJKLMNOPQRSTUVWXYZ[\\]^_"

\* U+0061 to U+007E
AsciiHigh == "abcdefghijklmnopqrstuvwxyz{|}~"

\* the character of a code unit
CodeChar(code) ==
  CASE code \in 32..95 -> Char(AsciiLow, code - 31)
    [] code \in 97..126 -> Char(AsciiHigh, code - 96)
    [] code = 9 -> "\t"
    [] code = 10 -> "\n"
    [] code = 12 -> "\f"
    [] code = 13 -> "\r"
    [] OTHER -> Unwritable

RECURSIVE BackslashRun(_, _)
\* how many backslashes stand in a row right before position j
BackslashRun(s, j) ==
  IF Char(s, j - 1) = "\\" THEN 1 + BackslashRun(s, j - 1) ELSE 0

\* position p opens an escape sequence
OpensEscape(s, p) == Char(s, p) = "\\" /\ BackslashRun(s, p) % 2 = 0

\* the character at p follows a backslash that opens an escape sequence of the
\* literal that starts at i
Escaped(s, i, p) == p > i /\ OpensEscape(s, p - 1)

\* the character at p is the u of a \u escape
IsU(s, i, p) == Escaped(s, i, p) /\ Char(s, p) = "u"

\* the character at p is one of the four digits of a \u escape
InHex(s, i, p) == \E k \in 1..4 : p - k >= i /\ IsU(s, i, p - k)

\* the code unit of the \u escape whose u is at p
CodeAt(s, p) ==
  4096 * HexVal(Char(s, p + 1)) + 256 * HexVal(Char(s, p + 2))
  + 16 * HexVal(Char(s, p + 3)) + HexVal(Char(s, p + 4))

\* the literal from i to the quote at j has a syntax error at p
BadAt(s, i, j, p) ==
  IF IsU(s, i, p)
  THEN p + 4 > j - 1 \/ \E k \in 1..4 : Char(s, p + k) \notin HexDigits
  ELSE IF Escaped(s, i, p) THEN Unescape(Char(s, p)) = ""
  ELSE Char(s, p) \in {"\n", "\t", "\r", "\f"}

\* what the character at p adds to the value of the literal
PieceAt(s, i, p) ==
  IF IsU(s, i, p) THEN CodeChar(CodeAt(s, p))
  ELSE IF Escaped(s, i, p) THEN Unescape(Char(s, p))
  ELSE IF OpensEscape(s, p) \/ InHex(s, i, p) THEN ""
  ELSE Char(s, p)

\* the first quote from i on that no backslash escapes, 0 when there is none
ClosingQuote(s, i) ==
  LET ends == {j \in i..Len(s) :
                 Char(s, j) = "\"" /\ BackslashRun(s, j) % 2 = 0}
  IN IF ends = {} THEN 0 ELSE Min(ends)

\* the literal from i to its closing quote at j; a literal without a backslash
\* or a control character stands for its own characters
LiteralTo(s, i, j) ==
  IF j = 0 THEN ParseFail
  ELSE IF \A p \in i..(j - 1) : Char(s, p) \notin {"\\", "\n", "\t", "\r", "\f"}
  THEN ParseOk(Str(SubSeq(s, i, j - 1)), j + 1)
  ELSE IF \E p \in i..(j - 1) : BadAt(s, i, j, p) THEN ParseFail
  ELSE ParseOk(Str(Concat([q \in 1..(j - i) |-> PieceAt(s, i, i + q - 1)])),
               j + 1)

\* A string literal whose opening quote is at i - 1.  It ends at the first quote
\* that no backslash escapes; an escape the grammar lacks, a \u without four
\* hexadecimal digits, or a raw control character inside the literal, is a
\* syntax error.
ScanString(s, i) == LiteralTo(s, i, ClosingQuote(s, i))

\* the digits of a number without its leading and trailing zeros, and how many
\* trailing zeros went
Significant(digits) ==
  LET nonzero == {i \in 1..Len(digits) : Char(digits, i) # "0"}
      first == Min(nonzero)
      last == CHOOSE i \in nonzero : \A j \in nonzero : j <= i
  IN IF nonzero = {} THEN [text |-> "0", dropped |-> 0]
     ELSE [text |-> SubSeq(digits, first, last), dropped |-> Len(digits) - last]

\* where the digits from position from on end
DigitsEnd(s, from) ==
  Min({q \in from..(Len(s) + 1) : Char(s, q) \notin Digits})

\* A natural number too long for an integer of the module is the sequence of
\* its limbs, the digits of its writing in base 10000, the least first.
Limb == 10000

RECURSIVE Carried(_, _, _, _)
\* the limbs from lo to hi and, last, the carry out of hi
Onward(low, c, lo, hi) ==
  SubSeq(low, 1, Len(low) - 1) \o Carried(c, lo, hi, low[Len(low)])

\* c[i] counts Limb^(i-1) and may be more than a limb: the limbs from lo to hi
\* of the number c with the carry into lo and, last, the carry out of hi
Carried(c, lo, hi, carry) ==
  IF lo = hi
  THEN <<(c[lo] + carry) % Limb, (c[lo] + carry) \div Limb>>
  ELSE Onward(Carried(c, lo, (lo + hi) \div 2, carry), c,
              ((lo + hi) \div 2) + 1, hi)

\* the limbs of the number c, whose counts are below 2^31 - Limb^2
Whole(c) == Carried(c \o <<0>>, 1, Len(c) + 1, 0)

LimbAt(a, i) == IF 1 <= i /\ i <= Len(a) THEN a[i] ELSE 0

\* a * m, for m up to Limb
Times(a, m) == Whole([i \in 1..Len(a) |-> a[i] * m])

\* a + b * Limb^q
Plus(a, b, q) ==
  Whole([i \in 1..(IF Len(a) > Len(b) + q THEN Len(a) ELSE Len(b) + q) |->
           LimbAt(a, i) + LimbAt(b, i - q)])

RECURSIVE TimesLong(_, _, _, _)
\* a times the number of the limbs of b from lo to hi
TimesLong(a, b, lo, hi) ==
  IF lo = hi THEN Times(a, b[lo])
  ELSE Plus(TimesLong(a, b, lo, (lo + hi) \div 2),
            TimesLong(a, b, ((lo + hi) \div 2) + 1, hi),
            ((lo + hi) \div 2) + 1 - lo)

\* a without its zero limbs in front
Trimmed(a) ==
  SubSeq(a, 1, CHOOSE i \in 1..Len(a) :
                 /\ i = 1 \/ a[i] # 0
                 /\ \A j \in (i + 1)..Len(a) : a[j] = 0)

\* a * a
Square(a) == Trimmed(TimesLong(a, a, 1, Len(a)))

RECURSIVE Power(_, _)
\* b^k, for b up to Limb
Power(b, k) ==
  IF k = 0 THEN <<1>>
  ELSE IF k % 2 = 1 THEN Trimmed(Times(Power(b, k - 1), b))
  ELSE Square(Power(b, k \div 2))

\* 2^1075, of 324 digits: half the least double is 2^-1075
Two1075 == Power(2, 1075)

\* 10 * 5^1075, of 753 digits: 10^1076 / 2^1075
TenTimesFive1075 == Trimmed(Times(Power(5, 1075), 10))

\* a * n for an n below 2^31, which has three limbs
Product(a, n) ==
  TimesLong(a, <<n % Limb, (n \div Limb) % Limb, n \div (Limb * Limb)>>, 1, 3)

\* floor(a / Limb^q), which is below 2^31
Above(a, q) ==
  LimbAt(a, q + 1) + LimbAt(a, q + 2) * Limb + LimbAt(a, q + 3) * Limb * Limb

\* floor(n * 10^324 / 2^1075): how many times 10^-324 go into n halves of the
\* least double
HalfSteps(n) == Above(Product(TenTimesFive1075, n), 188)

\* the double k * 2^-1074 in the digits of Number::toString: the number of
\* the fewest digits that is nearer to it than to another double and, of
\* several, the nearest one.  In units of 10^-324 these numbers are the integers
\* from low + 1 to high; the doubles being 4.94 units apart, at most one of
\* them is a multiple of 10^g for a g from 1 on, the greatest such g gives the
\* fewest digits, and without one the integer nearest to the double is taken
Shortest(neg, low, high, nearest) ==
  LET tens == {g \in 1..9 : (high \div Pow10(g)) * Pow10(g) > low}
      most == CHOOSE g \in tens : \A h \in tens : h <= g
  IN Dec((IF neg THEN 0 - 1 ELSE 1)
         * (IF tens = {} THEN nearest ELSE (high \div Pow10(most)) * Pow10(most)),
         0 - 324)

\* the double k * 2^-1074
Subnormal(neg, k) ==
  Shortest(neg, HalfSteps(2 * k - 1), HalfSteps(2 * k + 1),
           (HalfSteps(4 * k) + 1) \div 2)

\* the double nearest to n * 10^x for an x from -332 to -324: k * 2^-1074 for
\* the integer k nearest to n * 10^x * 2^1074
NearestSubnormal(neg, n, x) ==
  Subnormal(neg, ((Above(Product(Two1075, n), 81) \div Pow10(0 - 324 - x)) + 1)
                 \div 2)

\* The double nearest to digits * 10^x, negated if neg; digits, nine at most,
\* has no leading or trailing zero, its first digit has the exponent top, and
\* lead is its first nine digits (zeros added).  Past 1.797693134862315807e308,
\* half a step beyond the greatest double, the number is Infinity; up to
\* 2.470328229206232720e-324, half the least double, it is 0 (and -0 is
\* written as 0 is).  Between them a number whose last digit has an exponent
\* of -323 or more is the shortest text of its own double, as the doubles
\* down there are 4.94e-324 apart; one with a lesser exponent is rounded to
\* a double of other digits.  (A number of more than nine digits is not among
\* those the module reads.)
Double(neg, digits, x, top, lead) ==
  CASE digits = "0" -> Num(0)
    [] /\ digits # "0" /\ Len(digits) <= 9
       /\ top > 308 \/ (top = 308 /\ lead >= 179769314) ->
         Infinite(neg)
    [] /\ digits # "0" /\ Len(digits) <= 9
       /\ top < 0 - 324 \/ (top = 0 - 324 /\ lead <= 247032822) ->
         Num(0)
    [] /\ digits # "0" /\ Len(digits) <= 9
       /\ top > 0 - 324 \/ (top = 0 - 324 /\ lead > 247032822)
       /\ x < 0 - 323 ->
         NearestSubnormal(neg, ScanDigits(digits, 1, 0).n, x)
    [] /\ digits # "0" /\ Len(digits) <= 9
       /\ top < 308 \/ (top = 308 /\ lead < 179769314)
       /\ x >= 0 - 323 ->
         Dec((IF neg THEN 0 - 1 ELSE 1) * ScanDigits(digits, 1, 0).n, x)

\* the number of the significant digits sig, with fraction digits after the
\* point and the exponent written
NumberValue(neg, sig, fraction, exponent, d) ==
  ParseOk(Double(neg, sig.text, exponent - fraction + sig.dropped,
                 exponent - fraction + sig.dropped + Len(sig.text) - 1,
                 ScanDigits(SubSeq(sig.text \o Zeros, 1, 9), 1, 0).n),
          d)

\* the integer digits are j..a-1, the fraction digits a+1..b-1, the number ends
\* before d
NumberOf(s, neg, j, a, b, exponent, d) ==
  NumberValue(neg, Significant(SubSeq(s, j, a - 1) \o SubSeq(s, a + 1, b - 1)),
              IF b > a THEN b - a - 1 ELSE 0, exponent, d)

\* the exponent written by digits: one of more than nine digits, leading zeros
\* apart, is beyond what the digits of the number make up for and counts as
\* 999999999
ExponentOf(digits) ==
  IF \E q \in 1..(Len(digits) - 9) : Char(digits, q) # "0" THEN 999999999
  ELSE ScanDigits(digits, 1, 0).n

\* the exponent's digits are c..d-1
NumberExpEnd(s, neg, j, a, b, c, d) ==
  IF d = c THEN ParseFail
  ELSE NumberOf(s, neg, j, a, b,
                (IF Char(s, b + 1) = "-" THEN 0 - 1 ELSE 1)
                * ExponentOf(SubSeq(s, c, d - 1)),
                d)

\* the exponent part, if any, starts at b
NumberExp(s, neg, j, a, b) ==
  IF Char(s, b) \in {"e", "E"}
  THEN IF Char(s, b + 1) \in {"+", "-"}
       THEN NumberExpEnd(s, neg, j, a, b, b + 2, DigitsEnd(s, b + 2))
       ELSE NumberExpEnd(s, neg, j, a, b, b + 1, DigitsEnd(s, b + 1))
  ELSE NumberOf(s, neg, j, a, b, 0, b)

\* the fraction's digits are a+1..b-1
NumberFrac(s, neg, j, a, b) ==
  IF b = a + 1 THEN ParseFail ELSE NumberExp(s, neg, j, a, b)

\* the integer digits are j..a-1
NumberInt(s, neg, j, a) ==
  IF a = j THEN ParseFail
  ELSE IF Char(s, j) = "0" /\ a > j + 1 THEN ParseFail
  ELSE IF Char(s, a) = "." THEN NumberFrac(s, neg, j, a, DigitsEnd(s, a + 1))
  ELSE NumberExp(s, neg, j, a, a)

\* a number: -? (0 | [1-9][0-9]*) (. [0-9]+)? ([eE] [+-]? [0-9]+)?
ParseNumber(s, i) ==
  IF Char(s, i) = "-" THEN NumberInt(s, TRUE, i + 1, DigitsEnd(s, i + 1))
  ELSE NumberInt(s, FALSE, i, DigitsEnd(s, i))

RECURSIVE ParseValue(_, _)
RECURSIVE ParseMembers(_, _, _)
RECURSIVE ParseElements(_, _, _)
\* after a member: a comma and more members, or the closing brace
MemberEnd(s, c, more) ==
  IF Char(s, c) = "," THEN ParseMembers(s, c + 1, more)
  ELSE IF Char(s, c) = "}" THEN ParseOk(Obj(more), c + 1)
  ELSE ParseFail

\* the member's value has been read
MemberValued(s, key, val, acc) ==
  IF ~val.ok THEN ParseFail
  ELSE MemberEnd(s, SkipJSONSpace(s, val.i), acc \o <<P(key.v.s, val.v)>>)

\* the member's colon is expected at b
MemberColon(s, key, b, acc) ==
  IF Char(s, b) # ":" THEN ParseFail
  ELSE MemberValued(s, key, ParseValue(s, b + 1), acc)

\* the member's key has been read
MemberKeyed(s, key, acc) ==
  IF ~key.ok THEN ParseFail
  ELSE MemberColon(s, key, SkipJSONSpace(s, key.i), acc)

\* the member's key is expected at a
MemberAt(s, a, acc) ==
  IF Char(s, a) # "\"" THEN ParseFail
  ELSE MemberKeyed(s, ScanString(s, a + 1), acc)

\* the members of an object, from the position after "{" or ","
ParseMembers(s, i, acc) == MemberAt(s, SkipJSONSpace(s, i), acc)

\* after an element: a comma and more elements, or the closing bracket
ElementEnd(s, c, more) ==
  IF Char(s, c) = "," THEN ParseElements(s, c + 1, more)
  ELSE IF Char(s, c) = "]" THEN ParseOk(Arr(more), c + 1)
  ELSE ParseFail

\* the element has been read
ElementValued(s, val, acc) ==
  IF ~val.ok THEN ParseFail
  ELSE ElementEnd(s, SkipJSONSpace(s, val.i), Append(acc, val.v))

\* the elements of an array, from the position after "[" or ","
ParseElements(s, i, acc) == ElementValued(s, ParseValue(s, i), acc)

\* the value that starts at a with the character c
ValueAt(s, a, c) ==
  CASE c = "\"" -> ScanString(s, a + 1)
    [] c = "{" ->
         (IF Char(s, SkipJSONSpace(s, a + 1)) = "}"
          THEN ParseOk(Obj(<<>>), SkipJSONSpace(s, a + 1) + 1)
          ELSE ParseMembers(s, a + 1, <<>>))
    [] c = "[" ->
         (IF Char(s, SkipJSONSpace(s, a + 1)) = "]"
          THEN ParseOk(Arr(<<>>), SkipJSONSpace(s, a + 1) + 1)
          ELSE ParseElements(s, a + 1, <<>>))
    [] c = "-" \/ c \in Digits -> ParseNumber(s, a)
    [] StartsAt(s, a, "null") -> ParseOk(Null, a + 4)
    [] StartsAt(s, a, "true") -> ParseOk(Bool(TRUE), a + 4)
    [] StartsAt(s, a, "false") -> ParseOk(Bool(FALSE), a + 5)
    [] OTHER -> ParseFail

\* a value, after white space
ParseValue(s, i) ==
  ValueAt(s, SkipJSONSpace(s, i), Char(s, SkipJSONSpace(s, i)))

\* only white space may follow the value
WholeText(s, r) ==
  IF r.ok /\ SkipJSONSpace(s, r.i) > Len(s) THEN r ELSE ParseFail

\* JSON.parse(s): ok = FALSE is the SyntaxError it throws
JSONparse(s) == WholeText(s, ParseValue(s, 1))

(***************************************************************************)
(* Event Encoder                                                           *)
(***************************************************************************)
\* encodeEvent without its line feed
encodeEventBare(event) == JSString(JSONstringify(event)).s

\* encodeEvent: JSON.stringify(event) + '\n'
encodeEvent(event) == JSString(JSONstringify(event)).s \o "\n"

(***************************************************************************)
(* Stream Transformer: the summary of a literature-search result           *)
(***************************************************************************)
MODEL_NAME == "gpt-5"

\* U+2022
Bullet == "*"

\* (s.match(/pat/g) || []).length for a literal pat no two occurrences of which
\* overlap, as is "<entry>"
CountMatches(s, pat) == Cardinality({i \in 1..Len(s) : StartsAt(s, i, pat)})

\* the first position from i on that holds "<", or Len(s) + 1
NextLt(s, i) ==
  LET lts == {j \in i..Len(s) : Char(s, j) = "<"}
  IN IF lts = {} THEN Len(s) + 1 ELSE Min(lts)

\* /<title>([^<]+)<\/title>/ at position i: the position after the match, or 0.
\* [^<]+ takes every character up to the next "<", which must open "</title>".
TitleMatchEnd(s, i) ==
  IF ~StartsAt(s, i, "<title>") THEN 0
  ELSE LET j == NextLt(s, i + 7)
       IN IF j > i + 7 /\ StartsAt(s, j, "</title>") THEN j + 8 ELSE 0

RECURSIVE TitleMatchesFrom(_, _, _)
\* the matches from position i on, left to right, each search resuming after the
\* match before; starts is the set of positions where the expression matches
TitleMatchesFrom(s, i, starts) ==
  LET later == {j \in starts : j >= i}
  IN IF later = {} THEN <<>>
     ELSE LET j == Min(later)
          IN <<SubSeq(s, j, TitleMatchEnd(s, j) - 1)>>
             \o TitleMatchesFrom(s, TitleMatchEnd(s, j), starts)

\* output.match(/<title>([^<]+)<\/title>/g) || []
TitleMatches(s) ==
  TitleMatchesFrom(s, 1, {i \in 1..Len(s) : TitleMatchEnd(s, i) # 0})

\* position p of t lies in an occurrence of <title> or </title>
InTitleTag(t, p) ==
  \E q \in (p - 7)..p :
    \/ StartsAt(t, q, "<title>") /\ p < q + 7
    \/ StartsAt(t, q, "</title>") /\ p < q + 8

\* t.replace(/<\/?title>/g, '')
StripTitleTags(t) ==
  Concat([p \in 1..Len(t) |-> IF InTitleTag(t, p) THEN "" ELSE Char(t, p)])

\* the title trimmed, its inner white space kept
CleanTitleTrimOnly(t) == Trim(StripTitleTags(t))

\* t.replace(/<\/?title>/g, '').trim().replace(/\s+/g, ' ')
CleanTitle(t) == CollapseSpace(Trim(StripTitleTags(t)))

\* seq.slice(from, to), zero-based, to exclusive
Slice(seq, from, to) ==
  LET last == IF to < Len(seq) THEN to ELSE Len(seq)
  IN IF from + 1 > last THEN <<>> ELSE SubSeq(seq, from + 1, last)

\* the paper titles, the feed's title not skipped
PaperTitlesFromFirst(output) ==
  LET kept == Slice(TitleMatches(output), 0, 3)
  IN [i \in DOMAIN kept |-> CleanTitle(kept[i])]

\* the paper titles: the first match is the feed's title, the next three are kept
PaperTitles(output) ==
  LET kept == Slice(TitleMatches(output), 1, 4)
  IN [i \in DOMAIN kept |-> CleanTitle(kept[i])]

\* the message of a tool_result
ResultMessage(toolName, output) ==
  IF toolName = "arxiv_search" /\ TypeOf(output) = "string"
  THEN LET paperCount == CountMatches(output.s, "<entry>")
           paperTitles == PaperTitles(output.s)
       IN IF Len(paperTitles) > 0
          THEN "Found " \o ToString(paperCount) \o " papers. Top: "
               \o Join(paperTitles, " " \o Bullet \o " ")
          ELSE "Found " \o ToString(paperCount) \o " papers"
  ELSE toolName \o " complete"

(***************************************************************************)
(* Stream Transformer: transform(chunk, controller)                        *)
(***************************************************************************)
\* String(chunk.toolName ?? 'tool'): the name, or the TypeError thrown
ToolNameOf(chunk) ==
  LET v == Get(chunk, "toolName")
  IN IF v.t \in {"undefined", "null"} THEN Str("tool") ELSE JSString(v)

\* typeof chunk.toolCallId === 'string' ? chunk.toolCallId : undefined
ToolCallIdOf(chunk) ==
  LET v == Get(chunk, "toolCallId")
  IN IF TypeOf(v) = "string" THEN v ELSE Undef

LlmStartEvent ==
  Obj(<<P("type", Str("llm_start")), P("model", Str(MODEL_NAME)),
        P("message", Str("Analyzing with " \o MODEL_NAME \o "..."))>>)

\* case 'tool-call': the event, or the TypeError String(...) throws
ToolCallEvent(chunk) ==
  IF IsThrow(ToolNameOf(chunk)) THEN TypeError
  ELSE Obj(<<P("type", Str("tool_call")), P("tool", ToolNameOf(chunk)),
             P("toolCallId", ToolCallIdOf(chunk)), P("input", Get(chunk, "input")),
             P("message", Str("Calling " \o ToolNameOf(chunk).s \o "..."))>>)

\* case 'tool-result': the event, or the TypeError String(...) throws
ToolResultEvent(chunk) ==
  IF IsThrow(ToolNameOf(chunk)) THEN TypeError
  ELSE Obj(<<P("type", Str("tool_result")), P("tool", ToolNameOf(chunk)),
             P("toolCallId", ToolCallIdOf(chunk)), P("input", Get(chunk, "input")),
             P("output", Get(chunk, "output")),
             P("message",
               Str(ResultMessage(ToolNameOf(chunk).s, Get(chunk, "output"))))>>)

\* typeof chunk.text === 'string' ? chunk.text : ''
\* the token event with the fragment's text trimmed
TokenEventTrimmed(chunk) ==
  LET v == Get(chunk, "text")
  IN Obj(<<P("type", Str("token")),
           P("content", IF TypeOf(v) = "string" THEN Str(Trim(v.s)) ELSE Str(""))>>)

\* case 'text-delta'
TokenEvent(chunk) ==
  LET v == Get(chunk, "text")
  IN Obj(<<P("type", Str("token")),
           P("content", IF TypeOf(v) = "string" THEN v ELSE Str(""))>>)

CompleteEvent ==
  Obj(<<P("type", Str("complete")), P("message", Str("Analysis complete"))>>)

\* case 'tool-error' | 'error': the event, or the TypeError String(chunk.error)
\* throws
ErrorEvent(chunk) ==
  IF IsThrow(JSString(Get(chunk, "error"))) THEN TypeError
  ELSE Obj(<<P("type", Str("error")),
             P("message",
               Str((IF Get(chunk, "type").s = "tool-error"
                    THEN "Tool error: " ELSE "Error: ")
                   \o JSString(Get(chunk, "error")).s))>>)

LifecycleTypes == {"start", "start-step", "text-start"}

\* the lifecycle case without its test of llmStarted
OnLifecycleUnguarded(started) ==
  [emit |-> <<LlmStartEvent>>, llmStarted |-> TRUE, raised |-> FALSE]

\* case 'start' | 'start-step' | 'text-start'
OnLifecycle(started) ==
  IF ~started
  THEN [emit |-> <<LlmStartEvent>>, llmStarted |-> TRUE, raised |-> FALSE]
  ELSE [emit |-> <<>>, llmStarted |-> started, raised |-> FALSE]

\* controller.enqueue(formatEvent(event)) for the event a case has built; a
\* case that throws while it builds the event enqueues nothing, and transform
\* throws
Enqueue(event, started) ==
  IF IsThrow(event)
  THEN [emit |-> <<>>, llmStarted |-> started, raised |-> TRUE]
  ELSE [emit |-> <<event>>, llmStarted |-> started, raised |-> FALSE]

\* transform with an error event for a chunk it has no case for
transformRejecting(chunk, started) ==
  LET type == Get(chunk, "type").s
  IN CASE type \in LifecycleTypes -> OnLifecycle(started)
       [] type = "tool-call" ->
            Enqueue(ToolCallEvent(chunk), started)
       [] type = "tool-result" ->
            Enqueue(ToolResultEvent(chunk), started)
       [] type = "text-delta" ->
            Enqueue(TokenEvent(chunk), started)
       [] type = "finish" ->
            Enqueue(CompleteEvent, started)
       [] OTHER -> Enqueue(ErrorEvent(chunk), started)

\* One call of transform: the events it enqueues (none or one), the new value
\* of llmStarted, and whether it threw.
transform(chunk, started) ==
  LET type == Get(chunk, "type").s
  IN CASE type \in LifecycleTypes -> OnLifecycle(started)
       [] type = "tool-call" ->
            Enqueue(ToolCallEvent(chunk), started)
       [] type = "tool-result" ->
            Enqueue(ToolResultEvent(chunk), started)
       [] type = "text-delta" ->
            Enqueue(TokenEvent(chunk), started)
       [] type = "finish" ->
            Enqueue(CompleteEvent, started)
       [] type \in {"tool-error", "error"} ->
            Enqueue(ErrorEvent(chunk), started)
       [] OTHER -> [emit |-> <<>>, llmStarted |-> started, raised |-> FALSE]

\* encoder.encode(encodeEvent(event)): the bytes of the record
formatEvent(event) == encodeEvent(event)

(***************************************************************************)
(* Literature Fetcher                                                      *)
(***************************************************************************)
\* response.ok taken for status 200 alone
ResponseOkOnly200(httpStatus) == httpStatus = 200

\* response.ok: the status is in the range 200-299
ResponseOk(httpStatus) == httpStatus >= 200 /\ httpStatus <= 299

\* fetchArxiv without its test of response.ok
fetchArxivUnchecked(httpStatus, body) == body

\* fetchArxiv, given the response's status and body
fetchArxiv(httpStatus, body) ==
  IF ~ResponseOk(httpStatus)
  THEN "Error: ArXiv API returned status " \o ToString(httpStatus)
  ELSE body

\* a feed of two papers, as the literature API answers
Feed2 ==
  "<feed><title>ArXiv Query</title>"
  \o "<entry><title>Deep  Nets</title></entry>"
  \o "<entry><title> Fast\n Diffusion </title></entry></feed>"

(***************************************************************************)
(* State                                                                   *)
(***************************************************************************)
VARIABLES
  upstream,    \* the chunks of result.fullStream handed to transform so far
  llmStarted,  \* let llmStarted
  out,         \* the events given to formatEvent so far, in order
  wire,        \* the records enqueued on the controller so far, in order
  closed,      \* the upstream has ended and the TransformStream has closed
  errored,     \* transform has thrown and the TransformStream has errored
  feed,        \* the literature API's feed: what follows its feed title
  run,         \* the model-calling runtime: where its tool-using run stands
  fetcher,     \* fetchArxiv: where each call stands, and the requests issued
  peers,       \* concurrent requests: each handler invocation's transformer
  sse,         \* the SSE /search handler: where it stands and what it sent
  enc,         \* one event on its way through encodeEvent and JSON.parse
  query,       \* App: useState('')
  status,      \* App: useState('idle')
  activity,    \* App: useState([])
  response,    \* App: useState('')
  isStreaming, \* useAPI: isLoading, true while invoke's stream is open
  net,         \* the response body on its way to useAPI
  seen,        \* the chunks handleChunk was called with in this search
  clock        \* Date.now()

tvars == <<upstream, llmStarted, out, wire, closed, errored>>

evars == <<fetcher, peers, sse>>

svars == <<feed, run, evars>>

cvars == <<query, status, activity, response, isStreaming, net, seen, clock>>

vars == <<tvars, svars, enc, cvars>>

(***************************************************************************)
(* The chunks of the model-calling runtime                                 *)
(***************************************************************************)
Chunk(type, fields) == Obj(<<P("type", Str(type))>> \o fields)

SearchInput == Obj(<<P("query", Str("diffusion models")), P("maxResults", Num(2))>>)

LifecycleChunks == {Chunk(t, <<>>) : t \in LifecycleTypes}

ToolCallChunks ==
  { Chunk("tool-call", <<P("toolName", Str("arxiv_search")),
                         P("toolCallId", Str("c1")), P("input", SearchInput)>>),
    Chunk("tool-call", <<P("toolCallId", Num(7))>>) }

ToolResultChunks ==
  { Chunk("tool-result", <<P("toolName", Str("arxiv_search")),
                           P("toolCallId", Str("c1")), P("input", SearchInput),
                           P("output", Str(Feed2))>>),
    Chunk("tool-result", <<P("toolName", Str("arxiv_search")),
                           P("output", Str(fetchArxiv(503, "")))>>),
    Chunk("tool-result", <<P("toolName", Str("arxiv_search")),
                           P("output", Obj(<<P("feed", Str(Feed2))>>))>>),
    Chunk("tool-result", <<P("toolName", Str("calc")), P("output", Num(4))>>) }

TextDeltaChunks ==
  { Chunk("text-delta", <<P("text", Str("Hi"))>>),
    Chunk("text-delta", <<P("text", Str(""))>>),
    Chunk("text-delta", <<P("text", Str(" \"x\"\n"))>>),
    Chunk("text-delta", <<>>) }

FinishChunks == {Chunk("finish", <<>>)}

\* the last one carries an error that String(...) cannot convert
ErrorChunks ==
  { Chunk("tool-error", <<P("error", Str("timeout"))>>),
    Chunk("error", <<P("error", Str("boom"))>>),
    Chunk("error", <<P("error", Obj(<<>>))>>),
    Chunk("tool-error",
          <<P("error", Arr(<<Obj(<<P("toString", Str("x"))>>)>>))>>) }

\* kinds the transformer has no case for
UnknownChunks == {Chunk("finish-step", <<>>), Chunk("abort", <<>>)}

Chunks ==
  LifecycleChunks \cup ToolCallChunks \cup ToolResultChunks \cup TextDeltaChunks
  \cup FinishChunks \cup ErrorChunks \cup UnknownChunks

\* the longest upstream sequence explored
MaxUpstream == 3

(***************************************************************************)
(* One request's Stream Transformer                                        *)
(***************************************************************************)
TransformerInit ==
  /\ upstream = <<>>
  /\ llmStarted = FALSE
  /\ out = <<>>
  /\ wire = <<>>
  /\ closed = FALSE
  /\ errored = FALSE

RunOff == [pc |-> "off", http |-> 0, body |-> ""]

\* no call of fetchArxiv yet
FetcherIdle == [calls |-> <<>>, requests |-> <<>>]

\* the requests served at the same time
Requests == {1, 2}

\* a request not yet received
PeerIdle == [pc |-> "idle", upstream |-> <<>>, llmStarted |-> FALSE, out |-> <<>>]

\* the SSE handler before a request
SseIdle ==
  [pc |-> "idle", query |-> "", maxResults |-> [nan |-> FALSE, n |-> 0],
   arxivData |-> "", yielded |-> <<>>, deltas |-> 0, sent |-> <<>>,
   closed |-> FALSE, resume |-> ""]

ExtraIdle ==
  /\ fetcher = FetcherIdle
  /\ peers = [r \in Requests |-> PeerIdle]
  /\ sse = SseIdle

EnvIdle == feed = <<>> /\ run = RunOff /\ ExtraIdle

EncOff == [phase |-> "off", event |-> Obj(<<>>), line |-> "", parsed |-> ParseFail]

EncIdle == enc = EncOff

NetIdle ==
  [phase |-> "idle", sent |-> <<>>, payload |-> "", pending |-> "",
   buffer |-> "", chunks |-> 0, carried |-> FALSE]

\* the App as mounted
ClientInit ==
  /\ query = ""
  /\ status = "idle"
  /\ activity = <<>>
  /\ response = ""
  /\ isStreaming = FALSE
  /\ net = NetIdle
  /\ seen = <<>>
  /\ clock = 0

\* the events of a chunk put before those already out
TransformPrepending(chunk) ==
  /\ ~closed
  /\ ~errored
  /\ LET r == transform(chunk, llmStarted)
     IN /\ llmStarted' = r.llmStarted
        /\ out' = r.emit \o out
        /\ wire' = [i \in DOMAIN r.emit |-> formatEvent(r.emit[i])] \o wire
        /\ errored' = r.raised
  /\ upstream' = Append(upstream, chunk)
  /\ UNCHANGED closed

\* result.fullStream delivers a chunk: transform runs on it, and when it throws
\* the TransformStream is errored: it takes no further chunk and does not
\* close
Transform(chunk) ==
  /\ ~closed
  /\ ~errored
  /\ LET r == transform(chunk, llmStarted)
     IN /\ llmStarted' = r.llmStarted
        /\ out' = out \o r.emit
        /\ wire' = wire \o [i \in DOMAIN r.emit |-> formatEvent(r.emit[i])]
        /\ errored' = r.raised
  /\ upstream' = Append(upstream, chunk)
  /\ UNCHANGED closed

\* result.fullStream ends: the TransformStream has no flush(), so it closes
\* without enqueuing anything
Close ==
  /\ ~closed
  /\ ~errored
  /\ closed' = TRUE
  /\ UNCHANGED <<upstream, llmStarted, out, wire, errored>>

\* any chunk may come next
Deliver ==
  /\ Len(upstream) < MaxUpstream
  /\ \E chunk \in Chunks : Transform(chunk)
  /\ UNCHANGED <<svars, enc, cvars>>

EndOfStream == Close /\ UNCHANGED <<svars, enc, cvars>>

Init == TransformerInit /\ EnvIdle /\ EncIdle /\ ClientInit

Next == Deliver \/ EndOfStream

Spec == Init /\ [][Next]_vars

(***************************************************************************)
(* Reading the two sequences                                               *)
(***************************************************************************)
EvType(e) == Get(e, "type").s

Count(seq, Test(_)) == Cardinality({i \in DOMAIN seq : Test(seq[i])})

IsLlmStart(e) == EvType(e) = "llm_start"

IsToken(e) == EvType(e) = "token"

IsTerminal(e) == EvType(e) \in {"complete", "error"}

IsLifecycle(chunk) == EvType(chunk) \in LifecycleTypes

(***************************************************************************)
(* Claims on the Stream Transformer, for every upstream sequence            *)
(***************************************************************************)
\* C1: the outgoing sequence holds at most one llm_start: the first start,
\* start-step or text-start chunk sets llmStarted and emits it, and every later
\* one emits nothing.
C1_AtMostOneLlmStart ==
  /\ Count(out, IsLlmStart) <= 1
  /\ llmStarted <=> (Count(upstream, IsLifecycle) > 0)
  /\ llmStarted <=> (Count(out, IsLlmStart) = 1)

\* two lifecycle chunks have been handled and one llm_start is out
C1_Witness ==
  /\ Count(upstream, IsLifecycle) >= 2
  /\ Count(out, IsLlmStart) = 1

\* C2: every token of the outgoing sequence is preceded in it by an llm_start,
\* also when the first text-delta comes before any lifecycle chunk.
C2_TokenAfterLlmStart ==
  \A i \in DOMAIN out :
    IsToken(out[i]) => \E j \in 1..(i - 1) : IsLlmStart(out[j])

\* C3: the outgoing sequence holds no event after a terminal event (complete or
\* error), and once the stream has closed it holds exactly one terminal event,
\* which is its last event.
C3_OneTerminalLast ==
  /\ \A i \in DOMAIN out : IsTerminal(out[i]) => i = Len(out)
  /\ closed => Count(out, IsTerminal) = 1

\* C4: once an error event is out, nothing more is forwarded: an error event is
\* followed by no event.
C4_NothingAfterError ==
  \A i \in DOMAIN out : EvType(out[i]) = "error" => i = Len(out)

(***************************************************************************)
(* The summary of a literature-search result, for every feed               *)
(*                                                                         *)
(* A feed is its feed title followed by pieces: entry delimiters, paper    *)
(* titles and other markup.  SpecSummary builds a feed piece by piece and  *)
(* hands it to transform as the output of arxiv_search.                    *)
(***************************************************************************)
EntryPiece == [kind |-> "entry", raw |-> "<entry>", title |-> ""]

\* a paper title as written in the feed, and as a reader would write it
TitlePieces ==
  { [kind |-> "title", raw |-> "<title>GANs</title>", title |-> "GANs"],
    [kind |-> "title", raw |-> "<title>Deep  Nets</title>", title |-> "Deep Nets"],
    [kind |-> "title", raw |-> "<title> Fast\n\fDiffusion </title>",
     title |-> "Fast Diffusion"] }

OtherPieces ==
  { [kind |-> "other", raw |-> "</entry>", title |-> ""],
    [kind |-> "other", raw |-> "<id>1</id> ", title |-> ""] }

Pieces == {EntryPiece} \cup TitlePieces \cup OtherPieces

\* the most pieces a feed holds after its feed title
MaxPieces == 4

FeedTitle == "<title>ArXiv Query</title>"

\* the body the literature API answers with
FeedText(pieces) ==
  "<feed>" \o FeedTitle \o Concat([i \in DOMAIN pieces |-> pieces[i].raw])
  \o "</feed>"

ResultChunk(output) ==
  Chunk("tool-result", <<P("toolName", Str("arxiv_search")),
                         P("toolCallId", Str("c1")), P("input", SearchInput),
                         P("output", output)>>)

\* the literature API's feed grows by one piece
AddPiece(piece) ==
  /\ upstream = <<>>
  /\ Len(feed) < MaxPieces
  /\ feed' = Append(feed, piece)
  /\ UNCHANGED <<tvars, run, evars, enc, cvars>>

\* the runtime reports the result of arxiv_search, which returned the feed
Summarize ==
  /\ upstream = <<>>
  /\ Transform(ResultChunk(Str(fetchArxiv(200, FeedText(feed)))))
  /\ UNCHANGED <<svars, enc, cvars>>

SummaryNext ==
  \/ \E piece \in Pieces : AddPiece(piece)
  \/ Summarize

SpecSummary == Init /\ [][SummaryNext]_vars

\* the pieces of a kind, in document order
RECURSIVE OfKind(_, _)
OfKind(pieces, kind) ==
  IF pieces = <<>> THEN <<>>
  ELSE (IF Head(pieces).kind = kind THEN <<Head(pieces)>> ELSE <<>>)
       \o OfKind(Tail(pieces), kind)

\* the message the claim describes, from the feed's pieces: M entry delimiters,
\* and the first min(N, 3) of the N paper titles
ExpectedMessage(pieces) ==
  LET M == Len(OfKind(pieces, "entry"))
      titles == OfKind(pieces, "title")
      top == IF Len(titles) < 3 THEN Len(titles) ELSE 3
  IN IF Len(titles) = 0 THEN "Found " \o ToString(M) \o " papers"
     ELSE "Found " \o ToString(M) \o " papers. Top: "
          \o Join([i \in 1..top |-> titles[i].title], " " \o Bullet \o " ")

\* C8: for the output of arxiv_search with one feed title, N paper titles and M
\* entry delimiters, the tool_result message reports M and lists the first
\* min(N, 3) paper titles, trimmed and collapsed, joined with the bullet; with
\* N = 0 it is 'Found M papers'.
C8_Summary ==
  out # <<>> =>
    /\ Len(out) = 1
    /\ EvType(out[1]) = "tool_result"
    /\ Get(out[1], "message") = Str(ExpectedMessage(feed))

\* a feed of four paper titles, one more than the summary lists, has been
\* summarized
C8_Witness ==
  /\ out # <<>>
  /\ Len(OfKind(feed, "title")) = 4

(***************************************************************************)
(* The scenarios: one tool-using run of the model-calling runtime          *)
(*                                                                         *)
(* streamText calls arxiv_search in its first step and answers in its      *)
(* second: start, start-step, tool-call, tool-result, start-step,          *)
(* text-start, one or more text-delta, finish.  The literature API answers *)
(* the tool's request with a status and a body.                            *)
(***************************************************************************)
HttpStatuses == {200, 404, 503}

Bodies == {Feed2, FeedText(<<>>), "Service Unavailable"}

DeltaTexts == {"Hi", " \"x\"\n", ""}

\* the most text-delta chunks of a run
MaxDeltas == 2

ScenarioInit ==
  /\ TransformerInit
  /\ EncIdle
  /\ ClientInit
  /\ feed = <<>>
  /\ ExtraIdle
  /\ \E h \in HttpStatuses, b \in Bodies : run = [pc |-> "start", http |-> h, body |-> b]

RunChunk(from, to, chunk) ==
  /\ run.pc = from
  /\ Transform(chunk)
  /\ run' = [run EXCEPT !.pc = to]
  /\ UNCHANGED <<feed, evars, enc, cvars>>

RunStart == RunChunk("start", "step1", Chunk("start", <<>>))

RunFirstStep == RunChunk("step1", "call", Chunk("start-step", <<>>))

RunToolCall ==
  RunChunk("call", "result",
           Chunk("tool-call", <<P("toolName", Str("arxiv_search")),
                                P("toolCallId", Str("c1")),
                                P("input", SearchInput)>>))

\* tools.arxiv_search.execute: fetchArxiv's return value is the tool's output
RunToolResult ==
  RunChunk("result", "step2", ResultChunk(Str(fetchArxiv(run.http, run.body))))

RunSecondStep == RunChunk("step2", "text", Chunk("start-step", <<>>))

RunTextStart == RunChunk("text", "delta", Chunk("text-start", <<>>))

RunTextDelta ==
  /\ Count(upstream, LAMBDA c : EvType(c) = "text-delta") < MaxDeltas
  /\ \E text \in DeltaTexts :
       RunChunk("delta", "delta", Chunk("text-delta", <<P("text", Str(text))>>))

RunFinish ==
  /\ Count(upstream, LAMBDA c : EvType(c) = "text-delta") >= 1
  /\ RunChunk("delta", "finish", Chunk("finish", <<>>))

RunEnd ==
  /\ run.pc = "finish"
  /\ Close
  /\ run' = [run EXCEPT !.pc = "end"]
  /\ UNCHANGED <<feed, evars, enc, cvars>>

ScenarioNext ==
  \/ RunStart
  \/ RunFirstStep
  \/ RunToolCall
  \/ RunToolResult
  \/ RunSecondStep
  \/ RunTextStart
  \/ RunTextDelta
  \/ RunFinish
  \/ RunEnd

SpecScenario == ScenarioInit /\ [][ScenarioNext]_vars

\* the text-delta chunks' texts, in order
RECURSIVE DeltaTextsOf(_)
DeltaTextsOf(chunks) ==
  IF chunks = <<>> THEN <<>>
  ELSE (IF EvType(Head(chunks)) = "text-delta"
        THEN <<Get(Head(chunks), "text")>> ELSE <<>>)
       \o DeltaTextsOf(Tail(chunks))

\* the outgoing sequence of a finished run whose tool_result carries message:
\* llm_start, tool_call(arxiv_search), that tool_result, one token per
\* text-delta, complete
RunOutIs(message) ==
  LET texts == DeltaTextsOf(upstream)
      k == Len(texts)
  IN /\ Len(out) = k + 4
     /\ out[1] = LlmStartEvent
     /\ EvType(out[2]) = "tool_call"
     /\ Get(out[2], "tool") = Str("arxiv_search")
     /\ EvType(out[3]) = "tool_result"
     /\ Get(out[3], "tool") = Str("arxiv_search")
     /\ Get(out[3], "message") = Str(message)
     /\ k >= 1
     /\ \A i \in 1..k : EvType(out[3 + i]) = "token"
                         /\ Get(out[3 + i], "content") = texts[i]
     /\ out[k + 4] = CompleteEvent

\* C9 as claimed: when the literature API answers with a non-success status, the
\* tool_result has the message 'arxiv_search complete', token events follow and
\* the sequence ends in complete.
C9_GenericFallback ==
  (run.pc = "end" /\ ~ResponseOk(run.http)) => RunOutIs("arxiv_search complete")

\* C9 as amended: the placeholder is text, so the summarizer runs on it and the
\* message is 'Found 0 papers'; token events follow and the sequence ends in
\* complete.
C9_FoundZeroPapers ==
  (run.pc = "end" /\ ~ResponseOk(run.http)) => RunOutIs("Found 0 papers")

\* a run has ended whose literature request was answered 503
C9_Witness == run.pc = "end" /\ run.http = 503

\* C10: the run whose literature request is answered with one feed title and two
\* entries, each with its title, emits llm_start, tool_call(arxiv_search),
\* tool_result 'Found 2 papers. Top: <title1> * <title2>', one token per
\* text-delta, complete, in this order and nothing else.
C10_HappyPath ==
  (run.pc = "end" /\ ResponseOk(run.http) /\ run.body = Feed2) =>
    RunOutIs("Found 2 papers. Top: Deep Nets " \o Bullet \o " Fast Diffusion")

\* such a run has ended, with two text-delta chunks
C10_Witness ==
  /\ run.pc = "end"
  /\ run.http = 200
  /\ run.body = Feed2
  /\ Len(DeltaTextsOf(upstream)) = 2

(***************************************************************************)
(* The Event Encoder and its inverse, for every StreamEvent                *)
(*                                                                         *)
(* SpecEncode takes one event through encodeEvent, and the record through  *)
(* the client's decoding: the line feed delimits it and JSON.parse reads   *)
(* it.  An optional field that is absent is a field whose value is         *)
(* undefined, as transform writes it.                                      *)
(***************************************************************************)
Texts == {"Hi", "", " \"x\"\n", "C:\\tmp\\n", "a\fb/"}

OptionalIds == {Undef, Str("c1")}

Inputs ==
  {Undef, Null, SearchInput, Str("{\"raw\": 1}"), Obj(<<>>),
   Obj(<<P("query", Str("a\fb")), P("maxResults", Dec(25, 0 - 1)),
         P("tags", Arr(<<Str("x"), Arr(<<>>), Null>>))>>)}

\* among them the least double, 5e-324, and three times it
Outputs ==
  {Undef, Str(Feed2), Str(fetchArxiv(503, "")), Num(-42),
   Dec(5, 0 - 324), Dec(0 - 15, 0 - 324),
   Obj(<<P("ok", Bool(TRUE)), P("n", Num(0))>>)}

ToolCallEvents ==
  { Obj(<<P("type", Str("tool_call")), P("tool", Str(tool)), P("toolCallId", id),
          P("input", input), P("message", Str("Calling " \o tool \o "..."))>>) :
      tool \in {"arxiv_search", "tool"}, id \in OptionalIds, input \in Inputs }

ToolResultEvents ==
  { Obj(<<P("type", Str("tool_result")), P("tool", Str("arxiv_search")),
          P("toolCallId", id), P("input", input), P("output", output),
          P("message", Str("Found 0 papers"))>>) :
      id \in OptionalIds, input \in {Undef, SearchInput}, output \in Outputs }

TokenEvents ==
  {Obj(<<P("type", Str("token")), P("content", Str(text))>>) : text \in Texts}

ErrorEvents ==
  { Obj(<<P("type", Str("error")), P("message", Str(prefix \o text))>>) :
      prefix \in {"Tool error: ", "Error: "}, text \in {"boom", "a \"b\"\n"} }

StreamEvents ==
  ToolCallEvents \cup ToolResultEvents \cup TokenEvents \cup ErrorEvents
  \cup {LlmStartEvent, CompleteEvent}

OptionalFields == {"toolCallId", "input", "output"}

EncodeInit ==
  /\ TransformerInit
  /\ EnvIdle
  /\ ClientInit
  /\ \E event \in StreamEvents : enc = [EncOff EXCEPT !.phase = "event", !.event = event]

\* the server: encodeEvent(event)
Encode ==
  /\ enc.phase = "event"
  /\ enc' = [enc EXCEPT !.phase = "record", !.line = encodeEvent(enc.event)]
  /\ UNCHANGED <<tvars, svars, cvars>>

\* the client: the record is the text before the line feed, and JSON.parse
\* decodes it
Decode ==
  /\ enc.phase = "record"
  /\ enc' = [enc EXCEPT !.phase = "decoded",
                        !.parsed = JSONparse(Split(enc.line, "\n")[1])]
  /\ UNCHANGED <<tvars, svars, cvars>>

EncodeNext == Encode \/ Decode

SpecEncode == EncodeInit /\ [][EncodeNext]_vars

\* a and b have the same value under every key (a key without a value reads as
\* undefined)
SameFields(a, b) == \A key \in Keys(a) \cup Keys(b) : Get(a, key) = Get(b, key)

\* C7: decoding the record of encodeEvent(e) yields an event equal to e; an
\* optional field (toolCallId, input, output) is in the record exactly if e has
\* a value for it; and the record is one line: the only line feed of the
\* encoding is its last character.
C7_RoundTrip ==
  /\ enc.phase \in {"record", "decoded"} =>
       /\ Len(Split(enc.line, "\n")) = 2
       /\ Split(enc.line, "\n")[2] = ""
  /\ enc.phase = "decoded" =>
       /\ enc.parsed.ok
       /\ enc.parsed.v.t = "object"
       /\ SameFields(enc.parsed.v, enc.event)
       /\ \A key \in OptionalFields :
            key \in Keys(enc.parsed.v) <=> Get(enc.event, key) # Undef

\* a tool_result without toolCallId and input, its output a text with quotes and
\* line feeds in it, has been encoded and decoded
C7_Witness ==
  /\ enc.phase = "decoded"
  /\ EvType(enc.event) = "tool_result"
  /\ Get(enc.event, "toolCallId") = Undef
  /\ Get(enc.event, "input") = Undef
  /\ Get(enc.event, "output") = Str(Feed2)

(***************************************************************************)
(* Client Reducer: handleChunk                                             *)
(*                                                                         *)
(* The reducer's state is st = [status, activity, response, threw]; threw  *)
(* says that handleChunk raised instead of returning.                      *)
(***************************************************************************)
\* the item a record appends to the activity log: the id is built from one
\* reading of the clock (Date.now()) and the timestamp is a later one (new Date())
ActivityItem(type, event, now, stamp) ==
  [id |-> JSString(type).s \o "-" \o ToString(now), type |-> type,
   message |-> Get(event, "message"), timestamp |-> stamp]

\* the activity case, the item put first instead of last
OnActivityPrepend(st, event, now, stamp) ==
  [st EXCEPT !.activity =
     <<ActivityItem(Get(event, "type"), event, now, stamp)>> \o @]

\* case 'tool_call' | 'tool_result' | 'llm_start'
OnActivity(st, event, now, stamp) ==
  [st EXCEPT !.activity =
     Append(@, ActivityItem(Get(event, "type"), event, now, stamp))]

\* the token case, the text replaced instead of extended
OnTokenReplace(st, event) ==
  IF IsThrow(JSString(Get(event, "content"))) THEN [st EXCEPT !.threw = TRUE]
  ELSE [st EXCEPT !.response = JSString(Get(event, "content")).s]

\* case 'token': setResponse(prev => prev + event.content); a content that
\* cannot be converted to a string makes the updater throw a TypeError, and the
\* response stays as it is
OnToken(st, event) ==
  IF IsThrow(JSString(Get(event, "content"))) THEN [st EXCEPT !.threw = TRUE]
  ELSE [st EXCEPT !.response = @ \o JSString(Get(event, "content")).s]

\* case 'complete'
OnComplete(st, event, now, stamp) ==
  [st EXCEPT !.activity = Append(@, ActivityItem(Str("complete"), event, now, stamp)),
             !.status = "complete"]

\* case 'error'
OnError(st, event, now, stamp) ==
  [st EXCEPT !.activity = Append(@, ActivityItem(Str("error"), event, now, stamp)),
             !.status = "error"]

\* switch (event.type); reading .type of null or undefined raises a TypeError
Route(st, event, now, stamp) ==
  IF event.t \in {"null", "undefined"} THEN [st EXCEPT !.threw = TRUE]
  ELSE LET type == Get(event, "type")
       IN CASE type \in {Str("tool_call"), Str("tool_result"), Str("llm_start")} ->
                 OnActivity(st, event, now, stamp)
            [] type = Str("token") -> OnToken(st, event)
            [] type = Str("complete") -> OnComplete(st, event, now, stamp)
            [] type = Str("error") -> OnError(st, event, now, stamp)
            [] OTHER -> st

\* handleChunk with the parse failure reported as an error of the stream
\* the switch on what JSON.parse gave; the catch returns before it
RouteParsed(st, r, now, stamp) ==
  IF ~r.ok THEN st ELSE Route(st, r.v, now, stamp)

\* the switch on what JSON.parse gave, a failure reported as an error
RouteParsedStrict(st, r, now, stamp) ==
  IF ~r.ok THEN [st EXCEPT !.status = "error"] ELSE Route(st, r.v, now, stamp)

handleChunkStrict(st, chunk, now, stamp) ==
  IF TypeOf(chunk) = "string"
  THEN RouteParsedStrict(st, JSONparse(chunk.s), now, stamp)
  ELSE Route(st, chunk, now, stamp)

\* handleChunk(chunk): a string is parsed, and returned as it is when it does not
\* parse; anything else is taken for the event
handleChunk(st, chunk, now, stamp) ==
  IF TypeOf(chunk) = "string"
  THEN RouteParsed(st, JSONparse(chunk.s), now, stamp)
  ELSE Route(st, chunk, now, stamp)

(***************************************************************************)
(* useAPI({ route, delimiter: '\n', onChunk: handleChunk })                *)
(*                                                                         *)
(* The hook is @agentuity/react's and its source is not in the repository. *)
(* Its framing of the response body is modelled from the specification:    *)
(* the body's chunks are appended to a pending prefix, every complete      *)
(* record (the text before a delimiter) goes to onChunk in order, the      *)
(* incomplete rest is kept for the next chunk, and at the end of the body  *)
(* a rest that is not empty is the last record.                            *)
(***************************************************************************)
\* every piece of the chunk handed on at once, nothing carried over
FrameUnbuffered(buffer, chunk) ==
  [records |-> SelectSeq(Split(chunk, "\n"), LAMBDA part : part # ""),
   buffer |-> ""]

\* the records a chunk completes, and the new pending prefix
Frame(buffer, chunk) ==
  LET parts == Split(buffer \o chunk, "\n")
  IN [records |-> SubSeq(parts, 1, Len(parts) - 1), buffer |-> parts[Len(parts)]]

RECURSIVE HandleAll(_, _, _)
\* onChunk on each record, in order; times holds the two readings of the clock
\* of each call
HandleAll(st, records, times) ==
  IF records = <<>> THEN st
  ELSE HandleAll(handleChunk(st, Str(Head(records)), times[1], times[2]),
                 Tail(records), Tail(Tail(times)))

\* the records of the end of the body
LastRecords(buffer) == IF buffer = "" THEN <<>> ELSE <<buffer>>

(***************************************************************************)
(* The App and one search after another                                    *)
(***************************************************************************)
\* the events a server may send, as transform builds them
ClientEvents ==
  { LlmStartEvent, CompleteEvent,
    ToolCallEvent(Chunk("tool-call", <<>>)),
    ToolResultEvent(Chunk("tool-result", <<P("toolName", Str("calc")),
                                           P("output", Num(4))>>)),
    TokenEvent(Chunk("text-delta", <<P("text", Str("Hi"))>>)),
    TokenEvent(Chunk("text-delta", <<P("text", Str(" \"x\"\n"))>>)),
    ErrorEvent(Chunk("error", <<P("error", Str("boom"))>>)) }

\* the most records of a response body
MaxRecords == 2

\* the most chunks a response body arrives in
MaxChunks == 2

\* the last reading of the clock
MaxClock == 1

\* the readings of a clock that stands at from during k reads: it does not go
\* back
Readings(from, k) ==
  {r \in [1..k -> from..MaxClock] : \A i \in 1..(k - 1) : r[i] <= r[i + 1]}

\* the clock after the readings
After(times) == IF times = <<>> THEN clock ELSE times[Len(times)]

EventSeqs == UNION {[1..n -> ClientEvents] : n \in 0..MaxRecords}

\* const EXAMPLE_PROMPTS
EXAMPLE_PROMPTS ==
  <<"AI agents", "diffusion models", "reinforcement learning", "LLM fine-tuning",
    "computer vision">>

\* the example buttons pressed
Prompts == {EXAMPLE_PROMPTS[1]}

\* the texts typed into the input
TypedTexts == {" \f", EXAMPLE_PROMPTS[1]}

\* the body of the streamed response: the records of the events, in order
Payload(events) == Concat([i \in DOMAIN events |-> encodeEvent(events[i])])

St == [status |-> status, activity |-> activity, response |-> response,
       threw |-> FALSE]

\* const isLoading = status === 'loading' || isStreaming
isLoading == status = "loading" \/ isStreaming

\* handleSearch(searchQuery): nothing for a query that trims to nothing; the
\* server answers the request with the body payload, which carries the events
\* sent
Search(searchQuery, sent, payload) ==
  /\ IF Trim(searchQuery) = ""
     THEN UNCHANGED cvars
     ELSE /\ query' = searchQuery
          /\ response' = ""
          /\ activity' = <<>>
          /\ status' = "loading"
          /\ isStreaming' = TRUE
          /\ net' = [phase |-> "open", sent |-> sent, payload |-> payload,
                     pending |-> payload, buffer |-> "", chunks |-> 0,
                     carried |-> FALSE]
          /\ seen' = <<>>
          /\ UNCHANGED clock
  /\ UNCHANGED <<tvars, svars, enc>>

\* the bodies of the responses
ResponseBodies == [events \in EventSeqs |-> Payload(events)]

\* a search the server answers with the records of events
HandleSearch(searchQuery, events) == Search(searchQuery, events, ResponseBodies[events])

\* the input's onChange: setQuery(e.target.value); the input is disabled while
\* isLoading
SetQuery(text) ==
  /\ ~isLoading
  /\ query' = text
  /\ UNCHANGED <<status, activity, response, isStreaming, net, seen, clock,
                 tvars, svars, enc>>

\* handleSubmit: handleSearch(query); the submit button is disabled while the
\* query trims to nothing or isLoading
HandleSubmit(events) ==
  /\ ~isLoading
  /\ Trim(query) # ""
  /\ HandleSearch(query, events)

\* the keys pressed in the input
KeysPressed == {"Enter", "a"}

\* the input's onKeyDown: e.key === 'Enter' && handleSearch(query)
OnKeyDown(key, events) ==
  /\ ~isLoading
  /\ IF key = "Enter" THEN HandleSearch(query, events) ELSE UNCHANGED vars

\* an example button's onClick: handleSearch(prompt); the buttons are rendered
\* while status === 'idle'
ClickExample(prompt, events) ==
  /\ status = "idle"
  /\ HandleSearch(prompt, events)

\* the setters' effect: the state of the reducer becomes st
SetSt(st) ==
  /\ status' = st.status
  /\ activity' = st.activity
  /\ response' = st.response

\* onChunk is called with each record, at the readings times of the clock
OnChunks(records, times) ==
  /\ SetSt(HandleAll(St, records, times))
  /\ seen' = seen \o records
  /\ clock' = After(times)

\* the records f of a chunk are handed on and its rest is kept
DeliverChunk(n, f) ==
  /\ \E times \in Readings(clock, 2 * Len(f.records)) : OnChunks(f.records, times)
  /\ net' = [net EXCEPT !.pending = SubSeq(@, n + 1, Len(@)),
                        !.buffer = f.buffer, !.chunks = @ + 1,
                        !.carried = @ \/ f.buffer # ""]

\* the next n characters of the body arrive
NetChunk(n) ==
  /\ isStreaming
  /\ n \in 1..Len(net.pending)
  /\ net.chunks + 1 < MaxChunks \/ n = Len(net.pending)
  /\ DeliverChunk(n, Frame(net.buffer, SubSeq(net.pending, 1, n)))
  /\ UNCHANGED <<query, isStreaming, tvars, svars, enc>>

\* the body ends and invoke resolves
StreamEnd ==
  /\ isStreaming
  /\ net.pending = ""
  /\ \E times \in Readings(clock, 2 * Len(LastRecords(net.buffer))) :
       OnChunks(LastRecords(net.buffer), times)
  /\ isStreaming' = FALSE
  /\ net' = [net EXCEPT !.phase = "done", !.payload = "", !.buffer = ""]
  /\ UNCHANGED <<query, tvars, svars, enc>>

\* the connection fails: invoke rejects and handleSearch's catch sets the status
StreamFail ==
  /\ isStreaming
  /\ status' = "error"
  /\ isStreaming' = FALSE
  /\ net' = [net EXCEPT !.phase = "failed", !.payload = "", !.pending = "",
                        !.buffer = "", !.chunks = 0]
  /\ UNCHANGED <<query, activity, response, seen, clock, tvars, svars, enc>>

\* time passes
Tick ==
  /\ clock < MaxClock
  /\ clock' = clock + 1
  /\ UNCHANGED <<query, status, activity, response, isStreaming, net, seen,
                 tvars, svars, enc>>

ClientNext ==
  \/ \E text \in TypedTexts : SetQuery(text)
  \/ \E events \in EventSeqs : HandleSubmit(events)
  \/ \E key \in KeysPressed :
       \E events \in (IF key = "Enter" THEN EventSeqs ELSE {<<>>}) :
         OnKeyDown(key, events)
  \/ \E prompt \in Prompts, events \in EventSeqs : ClickExample(prompt, events)
  \/ \E n \in 1..Len(net.pending) : NetChunk(n)
  \/ StreamEnd
  \/ StreamFail
  \/ Tick

SpecClient == Init /\ [][ClientNext]_vars

(***************************************************************************)
(* Claims on the Client Reducer                                            *)
(***************************************************************************)
RECURSIVE TokenText(_)
\* the contents of the token events of a sequence, concatenated in order
TokenText(events) ==
  IF events = <<>> THEN ""
  ELSE (IF IsToken(Head(events)) THEN Get(Head(events), "content").s ELSE "")
       \o TokenText(Tail(events))

\* C5: within one search, after the reducer has processed records 1..N the
\* response text is the concatenation, in arrival order, of the contents of the
\* token events among them (so other events leave it unchanged), and at the end
\* of the stream it is the concatenation of all token contents.
C5_ResponseIsTokens ==
  /\ net.phase # "idle" =>
       /\ Len(seen) <= Len(net.sent)
       /\ response = TokenText(SubSeq(net.sent, 1, Len(seen)))
  /\ net.phase = "done" => response = TokenText(net.sent)

\* a stream of two token events has ended
C5_Witness ==
  /\ net.phase = "done"
  /\ Len(net.sent) = 2
  /\ Count(net.sent, IsToken) = 2
  /\ response # ""

\* what the claim compares: the status, the response text, and the type and
\* message of each activity item (an item's id and timestamp are clock readings)
View(st) ==
  [status |-> st.status, response |-> st.response,
   activity |-> [i \in DOMAIN st.activity |->
                   [type |-> st.activity[i].type,
                    message |-> st.activity[i].message]]]

\* the reducer after handleSearch's reset
Fresh == [status |-> "loading", activity |-> <<>>, response |-> "", threw |-> FALSE]

\* the reducer after a body that arrived as one chunk
WholeBody(payload) ==
  LET f == Frame("", payload)
  IN HandleAll(HandleAll(Fresh, f.records, [i \in 1..(2 * Len(f.records)) |-> 0]),
               LastRecords(f.buffer), <<0, 0>>)

\* the records handed to handleChunk so far, each with its delimiter
SeenText == Concat([i \in DOMAIN seen |-> seen[i] \o "\n"])

\* C6: a body delivered in two chunks, split at any offset, leaves the same
\* (status, activityLog, responseText) as the body delivered in one chunk; the
\* incomplete rest of a chunk is kept and put before the next chunk, neither
\* parsed nor dropped.
C6_SplitRobust ==
  /\ net.phase = "open" =>
       SeenText \o net.buffer \o net.pending = net.payload
  /\ net.phase = "done" => View(St) = View(WholeBody(Payload(net.sent)))

\* a body of two records has arrived in two chunks, the split inside a record
C6_Witness ==
  /\ net.phase = "done"
  /\ Len(net.sent) = 2
  /\ net.chunks = 2
  /\ net.carried

(***************************************************************************)
(* Records that do not parse                                               *)
(*                                                                         *)
(* SpecMalformed sends bodies whose lines are records of events or text    *)
(* that is not JSON; net.sent holds the events of the well-formed lines.   *)
(***************************************************************************)
\* lines JSON.parse rejects: not JSON, a record cut short, an empty line
MalformedLines == {"{bad", "{\"type\":\"token\",\"content\":\"lo", ""}

LineEvents ==
  { CompleteEvent,
    ToolCallEvent(Chunk("tool-call", <<>>)),
    TokenEvent(Chunk("text-delta", <<P("text", Str("Hi"))>>)) }

WireLines ==
  {[line |-> JSONstringify(e).s, ok |-> TRUE, event |-> e] : e \in LineEvents}
  \cup {[line |-> l, ok |-> FALSE, event |-> Undef] : l \in MalformedLines}

LineSeqs == UNION {[1..n -> WireLines] : n \in 0..MaxRecords}

\* the events of the well-formed lines, in order
EventsOf(lines) ==
  LET kept == SelectSeq(lines, LAMBDA l : l.ok)
  IN [i \in DOMAIN kept |-> kept[i].event]

\* the body: every line with its delimiter
BodyOf(lines) == Concat([i \in DOMAIN lines |-> lines[i].line \o "\n"])

\* a search the server answers with lines, some of them malformed
SearchLines(lines) == Search(EXAMPLE_PROMPTS[1], EventsOf(lines), BodyOf(lines))

\* the first example button is pressed
ClickExampleLines(lines) ==
  /\ status = "idle"
  /\ SearchLines(lines)

MalformedNext ==
  \/ \E lines \in LineSeqs : ClickExampleLines(lines)
  \/ \E n \in 1..Len(net.pending) : NetChunk(n)
  \/ StreamEnd

SpecMalformed == Init /\ [][MalformedNext]_vars

\* C11: a record that fails to parse is returned by handleChunk without a throw
\* and with (status, activityLog, responseText) unchanged, and the well-formed
\* records after it are processed as usual: at the end of the stream the state
\* is the one the well-formed records alone produce.
C11_MalformedDropped ==
  /\ \A line \in MalformedLines :
       \A now \in 0..MaxClock : handleChunk(St, Str(line), now, now) = St
  /\ net.phase = "done" =>
       View(St) = View(WholeBody(Payload(net.sent)))

\* a stream has ended whose first record was malformed and whose second was a
\* token, which reached the response
C11_Witness ==
  /\ net.phase = "done"
  /\ Len(seen) = 2
  /\ seen[1] \in MalformedLines
  /\ Len(net.sent) = 1
  /\ response = "Hi"

(***************************************************************************)
(* fetchArxiv, call by call                                                *)
(*                                                                         *)
(* A call builds the URL and awaits fetch(url); the literature API answers *)
(* with a status, or the connection fails and fetch rejects.  A call whose *)
(* response is ok then returns response.text(), which settles when the     *)
(* body has been read, or rejects.  Nothing keeps a second call from       *)
(* starting while the first awaits.                                        *)
(***************************************************************************)
\* the code unit of a character of the module
CharCode(c) ==
  CHOOSE code \in {9, 10, 12, 13} \cup (32..95) \cup (97..126) :
    CodeChar(code) = c

UpperHex == "0123456789ABCDEF"

\* a code unit below 128 as a percent-encoded byte
PercentByte(code) ==
  "%" \o Char(UpperHex, (code \div 16) + 1)
  \o Char(UpperHex, (code % 16) + 1)

\* the characters encodeURIComponent keeps: letters, digits and - _ . ! ~ * ' ( )
IsUnreserved(c) ==
  \/ CharCode(c) \in (48..57) \cup (65..90) \cup (97..122)
  \/ c \in {"-", "_", ".", "!", "~", "*", "'", "(", ")"}

\* encodeURIComponent on one character: every other character becomes its
\* percent-encoded UTF-8 bytes, one byte for a character of the module
EncodeURIChar(c) == IF IsUnreserved(c) THEN c ELSE PercentByte(CharCode(c))

encodeURIComponent(s) == Concat([i \in 1..Len(s) |-> EncodeURIChar(Char(s, i))])

\* maxResults: number = 5
DefaultMaxResults == 5

\* the url of a call; the default stands in for a maxResults that is undefined,
\* and for no other value.  (maxResults: number: a value the template literal
\* cannot convert is not among its arguments.)
ArxivUrl(searchQuery, maxResults) ==
  "http://export.arxiv.org/api/query?search_query=all:"
  \o encodeURIComponent(searchQuery) \o "&max_results="
  \o JSString(IF maxResults.t = "undefined" THEN Num(DefaultMaxResults)
              ELSE maxResults).s
  \o "&sortBy=relevance"

FetchQueries == {"AI agents", "a&b=c;\n100%"}

\* the second argument of a call: none, 0, 3
FetchMaxResults == {Undef, Num(0), Num(3)}

\* the input the runtime hands to the tool
ToolInputs ==
  {Obj(<<P("query", Str("diffusion models"))>>),
   Obj(<<P("query", Str("diffusion models")), P("maxResults", Num(0))>>)}

FetchStatuses == {199, 200, 204, 299, 300, 503}

\* the bodies response.text() reads
FetchBodies == {Feed2, "Service Unavailable"}

\* the most calls of fetchArxiv
MaxCalls == 2

\* a call that awaits fetch(url)
CallAwaiting == [httpStatus |-> 0, body |-> "", pc |-> "awaiting", result |-> ""]

\* fetchArxiv(query, maxResults) is called, with maxResults undefined where the
\* caller passes none: it issues fetch(url) and awaits, whatever the calls
\* before it have come to
FetchCall(searchQuery, maxResults) ==
  /\ Len(fetcher.calls) < MaxCalls
  /\ fetcher' = [calls |-> Append(fetcher.calls, CallAwaiting),
                 requests |-> Append(fetcher.requests,
                                     ArxivUrl(searchQuery, maxResults))]
  /\ UNCHANGED <<tvars, feed, run, peers, sse, enc, cvars>>

\* a ?? b
Nullish(a, b) == IF a.t \in {"undefined", "null"} THEN b ELSE a

\* tools.arxiv_search.execute({ query, maxResults })
ToolExecute(input) ==
  FetchCall(Get(input, "query").s, Nullish(Get(input, "maxResults"), Num(5)))

\* call i has its response: a status that is not ok makes it return the
\* placeholder, one that is ok makes it wait for response.text()
FetchRespond(i, httpStatus) ==
  /\ i \in DOMAIN fetcher.calls
  /\ fetcher.calls[i].pc = "awaiting"
  /\ fetcher' =
       [fetcher EXCEPT !.calls[i] =
          IF ResponseOk(httpStatus)
          THEN [@ EXCEPT !.pc = "reading", !.httpStatus = httpStatus]
          ELSE [@ EXCEPT !.pc = "returned", !.httpStatus = httpStatus,
                         !.result = fetchArxiv(httpStatus, "")]]
  /\ UNCHANGED <<tvars, feed, run, peers, sse, enc, cvars>>

\* response.text() of call i settles with the body, which the call returns
FetchText(i, body) ==
  /\ i \in DOMAIN fetcher.calls
  /\ fetcher.calls[i].pc = "reading"
  /\ fetcher' =
       [fetcher EXCEPT !.calls[i] =
          [@ EXCEPT !.pc = "returned", !.body = body,
                    !.result = fetchArxiv(fetcher.calls[i].httpStatus,
                                          body)]]
  /\ UNCHANGED <<tvars, feed, run, peers, sse, enc, cvars>>

\* the connection of call i fails before a response: fetch rejects and, with
\* no try/catch, so does fetchArxiv
FetchReject(i) ==
  /\ i \in DOMAIN fetcher.calls
  /\ fetcher.calls[i].pc = "awaiting"
  /\ fetcher' = [fetcher EXCEPT !.calls[i].pc = "rejected"]
  /\ UNCHANGED <<tvars, feed, run, peers, sse, enc, cvars>>

\* the connection of call i fails while the body is read: response.text()
\* rejects, and so does the promise fetchArxiv returned
FetchTextReject(i) ==
  /\ i \in DOMAIN fetcher.calls
  /\ fetcher.calls[i].pc = "reading"
  /\ fetcher' = [fetcher EXCEPT !.calls[i].pc = "rejected"]
  /\ UNCHANGED <<tvars, feed, run, peers, sse, enc, cvars>>

FetchNext ==
  \/ \E q \in FetchQueries, n \in FetchMaxResults : FetchCall(q, n)
  \/ \E input \in ToolInputs : ToolExecute(input)
  \/ \E i \in 1..MaxCalls, h \in FetchStatuses : FetchRespond(i, h)
  \/ \E i \in 1..MaxCalls, b \in FetchBodies : FetchText(i, b)
  \/ \E i \in 1..MaxCalls : FetchReject(i)
  \/ \E i \in 1..MaxCalls : FetchTextReject(i)

SpecFetch == Init /\ [][FetchNext]_vars

\* C12: fetchArxiv issues one request per call and never a second one; a
\* response whose status is outside 200-299 makes it return, not raise, the
\* placeholder text with the status code in it, and a response whose status is
\* inside makes it return the body as it is.
C12_FetchContract ==
  /\ Len(fetcher.requests) = Len(fetcher.calls)
  /\ \A i \in DOMAIN fetcher.calls :
       /\ fetcher.calls[i].pc = "returned" =>
            IF fetcher.calls[i].httpStatus \in 200..299
            THEN fetcher.calls[i].result = fetcher.calls[i].body
            ELSE fetcher.calls[i].result =
                   "Error: ArXiv API returned status "
                   \o ToString(fetcher.calls[i].httpStatus)
       /\ fetcher.calls[i].httpStatus \notin {0} \cup (200..299) =>
            fetcher.calls[i].pc = "returned"

\* while a first call still awaits its response, a second one has been
\* answered 204 and has returned the body
C12_Witness ==
  /\ Len(fetcher.calls) = 2
  /\ fetcher.calls[1].pc = "awaiting"
  /\ fetcher.calls[2].pc = "returned"
  /\ fetcher.calls[2].httpStatus = 204
  /\ fetcher.calls[2].result = Feed2

(***************************************************************************)
(* The activity log within one search                                      *)
(***************************************************************************)
\* the records of the search processed so far
Processed == SubSeq(net.sent, 1, Len(seen))

\* the type and message of the records that are not tokens, in order
LogOf(events) ==
  LET kept == SelectSeq(events, LAMBDA e : ~IsToken(e))
  IN [i \in DOMAIN kept |-> [type |-> Get(kept[i], "type"),
                             message |-> Get(kept[i], "message")]]

\* the status the records leave: that of the last terminal record
StatusOf(events) ==
  LET ends == SelectSeq(events, IsTerminal)
  IN IF ends = <<>> THEN "loading" ELSE EvType(ends[Len(ends)])

IsPrefix(s, u) == Len(s) <= Len(u) /\ SubSeq(u, 1, Len(s)) = s

\* the step stays within one search
SameSearch == net.phase = "open" /\ net'.phase # "idle" /\ isStreaming

\* C13: within one search the activity log holds one item per tool_call,
\* tool_result, llm_start, complete and error record processed, in arrival order,
\* with the record's type and message, and none for a token; a step of the
\* search only appends to it, leaving every existing item as it was; a complete
\* record leaves status complete and an error record leaves status error.
C13_AppendOnly ==
  /\ [](net.phase \in {"open", "done"} =>
          /\ View(St).activity = LogOf(Processed)
          /\ status = StatusOf(Processed))
  /\ [][SameSearch => IsPrefix(activity, activity')]_vars

\* a stream of an llm_start record and an error record has ended
C13_Witness ==
  /\ net.phase = "done"
  /\ Len(activity) = 2
  /\ activity[1].type = Str("llm_start")
  /\ activity[2].type = Str("error")
  /\ status = "error"

(***************************************************************************)
(* Further claims on the Stream Transformer, for every upstream sequence    *)
(***************************************************************************)
\* the kinds of chunk the transformer has a case for
KnownTypes ==
  {"start", "start-step", "text-start", "tool-call", "tool-result",
   "text-delta", "finish", "tool-error", "error"}

IsKnown(chunk) == EvType(chunk) \in KnownTypes

RECURSIVE Replay(_, _, _)
\* the transformer's output and flag after the chunks, from a given start; a
\* chunk on which transform throws is the last one it takes
Replay(chunks, emitted, started) ==
  IF chunks = <<>> THEN [out |-> emitted, llmStarted |-> started]
  ELSE LET r == transform(Head(chunks), started)
       IN IF r.raised THEN [out |-> emitted, llmStarted |-> started]
          ELSE Replay(Tail(chunks), emitted \o r.emit, r.llmStarted)

\* the step hands one more chunk to transform
Handles(chunk) == upstream' = Append(upstream, chunk)

\* C14: a chunk whose type is none of start, start-step, text-start, tool-call,
\* tool-result, text-delta, finish, tool-error, error makes transform enqueue
\* nothing and leave llmStarted as it is, so the outgoing sequence is the one the
\* upstream sequence without such chunks produces.
C14_UnknownDropped ==
  /\ []([out |-> out, llmStarted |-> llmStarted]
          = Replay(SelectSeq(upstream, IsKnown), <<>>, FALSE))
  /\ [][\A chunk \in Chunks :
          (Handles(chunk) /\ ~IsKnown(chunk)) =>
            (out' = out /\ wire' = wire /\ llmStarted' = llmStarted)]_vars

\* an unknown chunk came between a start and a text-delta, and only those two
\* are in the output
C14_Witness ==
  /\ Len(upstream) = 3
  /\ EvType(upstream[1]) = "start"
  /\ ~IsKnown(upstream[2])
  /\ EvType(upstream[3]) = "text-delta"
  /\ Len(out) = 2

IsTextDelta(chunk) == EvType(chunk) = "text-delta"

\* C15: the token events of the outgoing sequence are, one for one and in order,
\* the text-delta chunks of the upstream sequence, and each token's content is
\* its fragment's text as it is, the empty text included.  (A text-delta whose
\* text is not a string gives a token with empty content.)
C15_OneTokenPerDelta ==
  LET deltas == SelectSeq(upstream, IsTextDelta)
      tokens == SelectSeq(out, IsToken)
  IN /\ Len(tokens) = Len(deltas)
     /\ \A i \in DOMAIN deltas :
          LET text == Get(deltas[i], "text")
          IN /\ Keys(tokens[i]) = {"type", "content"}
             /\ Get(tokens[i], "content") =
                  (IF TypeOf(text) = "string" THEN text ELSE Str(""))

\* three fragments were handled, one of them empty and one with white space
\* around its text, and three tokens are out
C15_Witness ==
  /\ Len(upstream) = 3
  /\ \A i \in 1..3 : IsTextDelta(upstream[i])
  /\ \E i \in 1..3 : Get(upstream[i], "text") = Str("")
  /\ \E i \in 1..3 : Get(upstream[i], "text") = Str(" \"x\"\n")
  /\ Count(out, IsToken) = 3

(***************************************************************************)
(* Two requests at the same time                                           *)
(*                                                                         *)
(* Each invocation of the handler declares its own llmStarted and builds   *)
(* its own TransformStream, whose transform closes over that variable.     *)
(* The runtime delivers the chunks of the two runs in any interleaving.    *)
(***************************************************************************)
PeerChunks ==
  { Chunk("start", <<>>), Chunk("text-start", <<>>),
    Chunk("text-delta", <<P("text", Str("Hi"))>>),
    Chunk("tool-call", <<P("toolName", Str("arxiv_search"))>>),
    Chunk("finish", <<>>) }

\* the most chunks of one request's run
MaxPerRequest == 2

\* one flag for all the requests: set once any request has set it
FlagOfShared(r) == \E q \in Requests : peers[q].llmStarted

\* the llmStarted that request r's transform closes over
FlagOf(r) == peers[r].llmStarted

\* the handler is invoked for request r: let llmStarted = false
Invoke(r) ==
  /\ peers[r].pc = "idle"
  /\ peers' = [peers EXCEPT ![r] = [PeerIdle EXCEPT !.pc = "open"]]
  /\ UNCHANGED <<tvars, feed, run, fetcher, sse, enc, cvars>>

\* request r's run delivers a chunk to request r's transform
PeerTransform(r, chunk) ==
  /\ peers[r].pc = "open"
  /\ Len(peers[r].upstream) < MaxPerRequest
  /\ LET res == transform(chunk, FlagOf(r))
     IN peers' = [peers EXCEPT ![r] = [pc |-> IF res.raised THEN "errored"
                                              ELSE "open",
                                       upstream |-> Append(@.upstream, chunk),
                                       llmStarted |-> res.llmStarted,
                                       out |-> @.out \o res.emit]]
  /\ UNCHANGED <<tvars, feed, run, fetcher, sse, enc, cvars>>

PeersNext ==
  \/ \E r \in Requests : Invoke(r)
  \/ \E r \in Requests, chunk \in PeerChunks : PeerTransform(r, chunk)

SpecPeers == Init /\ [][PeersNext]_vars

\* C16: under every interleaving of the chunks of two requests, each request's
\* outgoing sequence and flag are those its own upstream sequence produces when
\* it runs alone: a start in one request does not keep the other request's
\* llm_start back.
C16_Isolation ==
  \A r \in Requests :
    [out |-> peers[r].out, llmStarted |-> peers[r].llmStarted]
      = Replay(peers[r].upstream, <<>>, FALSE)

\* both requests have handled a start, and each has its llm_start
C16_Witness ==
  \A r \in Requests :
    /\ peers[r].upstream # <<>>
    /\ EvType(peers[r].upstream[1]) = "start"
    /\ Count(peers[r].out, IsLlmStart) = 1

\* the kind of event a chunk is translated to: none when transform throws on
\* it
KindOf(chunk) ==
  IF transform(chunk, FALSE).raised THEN "none"
  ELSE CASE EvType(chunk) = "tool-call" -> "tool_call"
         [] EvType(chunk) = "tool-result" -> "tool_result"
         [] EvType(chunk) = "text-delta" -> "token"
         [] EvType(chunk) = "finish" -> "complete"
         [] EvType(chunk) \in {"tool-error", "error"} -> "error"
         [] EvType(chunk) \in LifecycleTypes -> "llm_start"
         [] OTHER -> "none"

Ordered == {"tool_call", "tool_result", "token", "complete", "error"}

\* C17: every chunk handed to transform adds at most one event to the end of the
\* outgoing sequence, in that same step and of the kind the chunk translates to,
\* and its record is enqueued in that step too; the end of the upstream adds
\* nothing.  So the tool_call, tool_result, token, complete and error events are,
\* one for one and in order, the chunks that translate to them.
C17_OrderPreserving ==
  /\ [](/\ Len(wire) = Len(out)
        /\ LET sent == SelectSeq(out, LAMBDA e : EvType(e) \in Ordered)
               from == SelectSeq(upstream, LAMBDA c : KindOf(c) \in Ordered)
           IN /\ Len(sent) = Len(from)
              /\ \A i \in DOMAIN sent : EvType(sent[i]) = KindOf(from[i]))
  /\ [][\A chunk \in Chunks :
          Handles(chunk) =>
            \/ out' = out /\ wire' = wire
            \/ /\ Len(out') = Len(out) + 1
               /\ IsPrefix(out, out')
               /\ IsPrefix(wire, wire')
               /\ EvType(out'[Len(out')]) = KindOf(chunk)
               /\ wire'[Len(wire')] = formatEvent(out'[Len(out')])]_vars
  /\ [][closed' # closed => out' = out /\ wire' = wire]_vars

\* a tool-call, a tool-result and a text-delta were handled and their three
\* events are out in that order
C17_Witness ==
  /\ Len(upstream) = 3
  /\ Len(out) = 3
  /\ EvType(out[1]) = "tool_call"
  /\ EvType(out[2]) = "tool_result"
  /\ EvType(out[3]) = "token"

(***************************************************************************)
(* The status at the end of a search                                       *)
(***************************************************************************)
\* C18: once the stream of a search has ended, invoke having resolved or
\* rejected, status is complete or error and not loading, also when no complete
\* or error record was delivered.
C18_LeavesLoading ==
  net.phase \in {"done", "failed"} => status \in {"complete", "error"}

\* C19: no two items of the activity log have the same id, also when two
\* records of the same type are processed at the same reading of the clock.
C19_UniqueIds ==
  \A i, j \in DOMAIN activity : i # j => activity[i].id # activity[j].id

(***************************************************************************)
(* The SSE /search handler of the README                                   *)
(*                                                                         *)
(* api.get('/search', sse(async (c, stream) => ...)): every await of the   *)
(* handler is a step.  A send is two of them: stream.writeSSE, which may   *)
(* reject, and the timer of 5 ms.  The fetch and the analysis stream may   *)
(* reject too.  The handler waits at its for await while streamAnalysis    *)
(* reads a chunk, and streamAnalysis waits at its yield while the handler  *)
(* sends the token.  The pictographs that open the messages are written    *)
(* as ASCII marks.                                                         *)
(***************************************************************************)
\* U+1F50D, U+1F4C4, U+1F916, U+2705, U+274C
SearchMark == "(search)"

PageMark == "(page)"

RobotMark == "(robot)"

DoneMark == "(done)"

CrossMark == "(cross)"

\* parseInt(s, 10): white space, an optional sign, digits; NaN without a digit
parseInt(s) ==
  LET i == SkipSpace(s, 1)
      neg == Char(s, i) = "-"
      j == IF Char(s, i) \in {"-", "+"} THEN i + 1 ELSE i
      d == ScanDigits(s, j, 0)
  IN IF Char(s, j) \notin Digits THEN [nan |-> TRUE, n |-> 0]
     ELSE [nan |-> FALSE, n |-> IF neg THEN 0 - d.n ELSE d.n]

\* c.req.query(name) || fallback: undefined and '' give the fallback
OrElse(param, fallback) ==
  IF param = Undef \/ param = Str("") THEN fallback ELSE param.s

QueryParams == {Undef, Str(""), Str("gans")}

MaxResultsParams == {Undef, Str("3"), Str(" 12px"), Str("many")}

\* ToBoolean, the test of if (content): undefined, null, '', 0 and false are
\* not true, any other value is
Truthy(v) ==
  CASE v.t \in {"undefined", "null"} -> FALSE
    [] v.t = "string" -> v.s # ""
    [] v.t = "number" -> ~(IsFinite(v) /\ v.n = 0)
    [] v.t = "boolean" -> v.n = 1
    [] OTHER -> TRUE

\* what the analysis stream's chunks carry as choices[0]?.delta?.content
DeltaContents ==
  {Undef, Null, Str(""), Num(0), Bool(FALSE), Str("Hi"), Str(" there")}

\* the text of what a failed await throws
Failures == {"Error: boom"}

\* the most chunks of the analysis stream
MaxTokens == 2

SseToolCallEvent(searchQuery) ==
  Obj(<<P("type", Str("tool_call")), P("tool", Str("arxiv_search")),
        P("message", Str(SearchMark \o " Searching ArXiv for \"" \o searchQuery
                         \o "\"..."))>>)

SseToolResultEvent(arxivData) ==
  Obj(<<P("type", Str("tool_result")), P("tool", Str("arxiv_search")),
        P("message", Str(PageMark \o " Found "
                         \o ToString(CountMatches(arxivData, "<entry>"))
                         \o " papers"))>>)

SseLlmStartEvent ==
  Obj(<<P("type", Str("llm_start")), P("model", Str("gpt-5")),
        P("message", Str(RobotMark \o " Analyzing with GPT-5..."))>>)

SseTokenEvent(content) == Obj(<<P("type", Str("token")), P("content", content)>>)

SseCompleteEvent ==
  Obj(<<P("type", Str("complete")), P("message", Str(DoneMark \o " Complete"))>>)

SseErrorEvent(error) ==
  Obj(<<P("type", Str("error")),
        P("message", Str(CrossMark \o " Error: " \o error))>>)

SseFrame == <<tvars, feed, run, fetcher, peers, enc, cvars>>

\* a request arrives: the query and maxResults parameters are read
SseRequest(q, m) ==
  /\ sse.pc = "idle"
  /\ sse' = [SseIdle EXCEPT !.pc = "tool_call",
                            !.query = OrElse(q, "AI agents"),
                            !.maxResults = parseInt(OrElse(m, "5"))]
  /\ UNCHANGED SseFrame

\* await send(event) inside the try, up to its timer: stream.writeSSE writes
\* the event and send waits for its 5 ms, after which the handler goes on at
\* to; or writeSSE rejects and the handler goes to its catch
Send(from, event, ok, to) ==
  /\ sse.pc = from
  /\ sse' = IF ok THEN [sse EXCEPT !.sent = Append(@, event), !.pc = "delay",
                                   !.resume = to]
            ELSE [sse EXCEPT !.pc = "catch"]
  /\ UNCHANGED SseFrame

\* await new Promise(r => setTimeout(r, 5)): send returns to its caller
SseDelay ==
  /\ sse.pc = "delay"
  /\ sse' = [sse EXCEPT !.pc = sse.resume, !.resume = ""]
  /\ UNCHANGED SseFrame

SseToolCall(ok) == Send("tool_call", SseToolCallEvent(sse.query), ok, "fetch")

\* await fetchArxiv(query, maxResults) returns the body or the placeholder
SseFetch(httpStatus, body) ==
  /\ sse.pc = "fetch"
  /\ sse' = [sse EXCEPT !.arxivData = fetchArxiv(httpStatus, body),
                        !.pc = "tool_result"]
  /\ UNCHANGED SseFrame

\* an await of the try rejects: the fetch, or the analysis stream
SseThrow ==
  /\ sse.pc \in {"fetch", "stream"}
  /\ sse' = [sse EXCEPT !.pc = "catch"]
  /\ UNCHANGED SseFrame

SseToolResult(ok) ==
  Send("tool_result", SseToolResultEvent(sse.arxivData), ok, "llm_start")

SseLlmStart(ok) == Send("llm_start", SseLlmStartEvent, ok, "stream")

\* streamAnalysis reads a chunk of the analysis stream: if (content) yield
\* content.  A chunk whose content is not true is passed over; a yielded one
\* is the handler's next chunk, and streamAnalysis waits
SseChunk(content) ==
  /\ sse.pc = "stream"
  /\ sse.deltas < MaxTokens
  /\ sse' = IF Truthy(content)
            THEN [sse EXCEPT !.deltas = @ + 1, !.yielded = Append(@, content),
                             !.pc = "token"]
            ELSE [sse EXCEPT !.deltas = @ + 1]
  /\ UNCHANGED SseFrame

\* await send({ type: 'token', content: chunk }) for the chunk just yielded,
\* after which streamAnalysis reads on
SseToken(ok) ==
  Send("token", SseTokenEvent(sse.yielded[Len(sse.yielded)]), ok, "stream")

\* the analysis stream ends
SseStreamEnd ==
  /\ sse.pc = "stream"
  /\ sse' = [sse EXCEPT !.pc = "complete"]
  /\ UNCHANGED SseFrame

SseComplete(ok) == Send("complete", SseCompleteEvent, ok, "close")

\* catch (error): await send(error event); when this send rejects too, the
\* rejection leaves the handler and stream.close() is not reached
SseCatch(error, ok) ==
  /\ sse.pc = "catch"
  /\ sse' = IF ok THEN [sse EXCEPT !.sent = Append(@, SseErrorEvent(error)),
                                   !.pc = "delay", !.resume = "close"]
            ELSE [sse EXCEPT !.pc = "raised"]
  /\ UNCHANGED SseFrame

\* stream.close()
SseClose ==
  /\ sse.pc = "close"
  /\ sse' = [sse EXCEPT !.pc = "done", !.closed = TRUE]
  /\ UNCHANGED SseFrame

SseNext ==
  \/ \E q \in QueryParams, m \in MaxResultsParams : SseRequest(q, m)
  \/ \E ok \in BOOLEAN : SseToolCall(ok)
  \/ \E h \in HttpStatuses, b \in Bodies : SseFetch(h, b)
  \/ SseThrow
  \/ \E ok \in BOOLEAN : SseToolResult(ok)
  \/ \E ok \in BOOLEAN : SseLlmStart(ok)
  \/ \E content \in DeltaContents : SseChunk(content)
  \/ \E ok \in BOOLEAN : SseToken(ok)
  \/ SseDelay
  \/ SseStreamEnd
  \/ \E ok \in BOOLEAN : SseComplete(ok)
  \/ \E error \in Failures, ok \in BOOLEAN : SseCatch(error, ok)
  \/ SseClose

SpecSse == Init /\ [][SseNext]_vars

\* the kinds of the events before the terminal one are a start of tool_call,
\* tool_result, llm_start, token, token, ...
SseBodyInOrder(events) ==
  \A i \in DOMAIN events :
    EvType(events[i]) = (CASE i = 1 -> "tool_call"
                           [] i = 2 -> "tool_result"
                           [] i = 3 -> "llm_start"
                           [] OTHER -> "token")

\* what the claim asks of the events sent by a handler that has run to its end
SseWellFormed ==
  LET n == Len(sse.sent)
      front == SubSeq(sse.sent, 1, n - 1)
      tokens == SelectSeq(front, IsToken)
  IN /\ n >= 1
     /\ IsTerminal(sse.sent[n])
     /\ Count(sse.sent, IsTerminal) = 1
     /\ SseBodyInOrder(front)
     /\ IsPrefix([i \in DOMAIN tokens |-> Get(tokens[i], "content")], sse.yielded)
     /\ EvType(sse.sent[n]) = "complete" =>
          /\ Len(front) = 3 + Len(sse.yielded)
          /\ Len(tokens) = Len(sse.yielded)

\* C20: when the handler has run to its end, the events it sent are tool_call,
\* tool_result, llm_start, one token per chunk yielded by streamAnalysis, in
\* order, and complete, or a start of that followed by one error event when the
\* fetch, the analysis stream or a send failed; exactly one terminal event was
\* sent, it is the last one, and stream.close() was called after it.
C20_SseOrder ==
  /\ sse.pc \in {"done", "raised"} => (SseWellFormed /\ sse.closed)
  /\ sse.closed => sse.pc = "done"

====
